---- MODULE Spec2Model ----
(***************************************************************************)
(* Markdown-to-Notion block translation of src/src/pages.py:               *)
(*   _md_token_to_rich_text      (the Inline Formatter)                    *)
(*   _markdown_to_notion_blocks  (the Block Compiler)                      *)
(*                                                                         *)
(* Positions are 0-based as in the Python source: tokens[k] of the source  *)
(* is Tok(toks, k) here.  A Python str is a sequence of one-character      *)
(* strings, so that strip() and startswith() are computed, not assumed.    *)
(* A Python dict with optional keys is a record that has the field or has  *)
(* not; a dict of flags {'bold': True, ...} is the set of its keys.        *)
(***************************************************************************)
EXTENDS Integers, Sequences, FiniteSets, TLC

VARIABLES
    tokens,              \* the token stream md.parse(md_body) returned
    i,                   \* cursor of the main loop of the Block Compiler
    blocks,              \* the block list built so far
    origins,             \* history: origins[n] = position of the token that gave rise to blocks[n]
    pc,                  \* "run" | "done" (returned blocks) | "raised" (IndexError) | "idle"
    source,              \* "document" (a tokenizer-shaped stream) | "arbitrary" | "none"
    children,            \* the inline token's children the Inline Formatter scans
    cidx,                \* 0-based index of the next child to scan
    active_annotations,  \* keys of the active_annotations dict
    link_url,            \* <<>> for None, <<href>> otherwise
    rich_text_objects,   \* the spans emitted so far
    fpc,                 \* "scan" | "done" | "idle"
    iterations,          \* history: iterations of the main loop the Block Compiler has begun
    compilations,        \* the frames of two calls of the Block Compiler running side by side
    calls,               \* the requests the Notion client has been sent, in order
    job,                 \* the running publish / schema / ingestion function: its inputs and locals
    file_content,        \* the text of the Markdown file handed to the Front-Matter Splitter
    parsed               \* <<>> before the splitter returns, <<[front_matter, body]>> after

vars == <<tokens, i, blocks, origins, pc, source,
          children, cidx, active_annotations, link_url, rich_text_objects, fpc,
          iterations, compilations, calls, job, file_content, parsed>>

blockVars == <<tokens, i, blocks, origins, pc, source, iterations>>
inlineVars == <<children, cidx, active_annotations, link_url, rich_text_objects, fpc>>
clientVars == <<calls, job>>
splitterVars == <<file_content, parsed>>
restVars == <<compilations, clientVars, splitterVars>>

(***************************************************************************)
(* Bounds of the model                                                     *)
(***************************************************************************)
MaxChildren == 3      \* inline children of the exhaustively enumerated inline tokens
MaxLen == 3           \* tokens of the exhaustively enumerated arbitrary streams
MaxConstructs == 2    \* block constructs of an enumerated document
MaxRows == 2          \* body rows of an enumerated table
MaxCells == 3         \* cells of an enumerated table row

(***************************************************************************)
(* Python str helpers                                                      *)
(***************************************************************************)
IsSpace(ch) == ch \in {" ", "\t", "\n"}

RECURSIVE LStrip(_)
LStrip(s) == IF s # <<>> /\ IsSpace(Head(s)) THEN LStrip(Tail(s)) ELSE s

RECURSIVE RStrip(_)
RStrip(s) == IF s # <<>> /\ IsSpace(s[Len(s)]) THEN RStrip(SubSeq(s, 1, Len(s) - 1)) ELSE s

\* str.strip()
Strip(s) == RStrip(LStrip(s))

\* str.startswith(prefix)
StartsWith(s, prefix) == Len(s) >= Len(prefix) /\ SubSeq(s, 1, Len(prefix)) = prefix

CalloutMarker == <<"[", "!">>

\* int(ch) for a decimal digit
DigitValue(ch) ==
    CASE ch = "1" -> 1 [] ch = "2" -> 2 [] ch = "3" -> 3
      [] ch = "4" -> 4 [] ch = "5" -> 5 [] ch = "6" -> 6 [] OTHER -> 0

(***************************************************************************)
(* The Inline Formatter: _md_token_to_rich_text                            *)
(***************************************************************************)
\* truth value of link_url in `if link_url:` (None and '' are false)
LinkTruthy(url) == url # <<>> /\ url[1] # ""

\* the text_obj of a text child: content, plus link and annotations when set
TextSpan(content, annotations, url) ==
    IF LinkTruthy(url)
    THEN IF annotations # {}
         THEN [type |-> "text", content |-> content, link |-> url[1], annotations |-> annotations]
         ELSE [type |-> "text", content |-> content, link |-> url[1]]
    ELSE IF annotations # {}
         THEN [type |-> "text", content |-> content, annotations |-> annotations]
         ELSE [type |-> "text", content |-> content]

\* a plausible bug: inline code stacks on the active annotations and link
CodeSpanStacked(content, annotations, url) ==
    TextSpan(content, annotations \cup {"code"}, url)

\* the text_obj of a code_inline child: the active state is not consulted
CodeSpan(content, annotations, url) ==
    [type |-> "text", content |-> content, annotations |-> {"code"}]

\* The state of one call: [annotations, link, out]
FormatterInit == [annotations |-> {}, link |-> <<>>, out |-> <<>>]

\* a plausible bug: strong_close clears nothing
OnStrongCloseKeeps(st) == st

OnText(st, child) ==
    IF child.content = <<>>
    THEN st
    ELSE [st EXCEPT !.out = Append(@, TextSpan(child.content, st.annotations, st.link))]

OnStrongOpen(st) == [st EXCEPT !.annotations = @ \cup {"bold"}]
OnStrongClose(st) == [st EXCEPT !.annotations = @ \ {"bold"}]
OnEmOpen(st) == [st EXCEPT !.annotations = @ \cup {"italic"}]
\* em_close flips italic instead of discarding it
OnEmCloseToggles(st) ==
    [st EXCEPT !.annotations = IF "italic" \in @ THEN @ \ {"italic"} ELSE @ \cup {"italic"}]
OnEmClose(st) == [st EXCEPT !.annotations = @ \ {"italic"}]
OnCodeInline(st, child) ==
    [st EXCEPT !.out = Append(@, CodeSpan(child.content, st.annotations, st.link))]
OnLinkOpen(st, child) == [st EXCEPT !.link = <<child.href>>]
OnLinkClose(st) == [st EXCEPT !.link = <<>>]

\* one iteration of `for child in token.children`
ChildStep(st, child) ==
    CASE child.type = "text" -> OnText(st, child)
      [] child.type = "strong_open" -> OnStrongOpen(st)
      [] child.type = "strong_close" -> OnStrongClose(st)
      [] child.type = "em_open" -> OnEmOpen(st)
      [] child.type = "em_close" -> OnEmClose(st)
      [] child.type = "code_inline" -> OnCodeInline(st, child)
      [] child.type = "link_open" -> OnLinkOpen(st, child)
      [] child.type = "link_close" -> OnLinkClose(st)
      [] OTHER -> st

RECURSIVE ScanChildren(_, _)
ScanChildren(st, chs) ==
    IF chs = <<>> THEN st ELSE ScanChildren(ChildStep(st, Head(chs)), Tail(chs))

\* _md_token_to_rich_text(token)
MdTokenToRichText(token) ==
    IF token.children = <<>> THEN <<>> ELSE ScanChildren(FormatterInit, token.children).out

(***************************************************************************)
(* Tokens (markdown-it Token objects; the attributes the compiler reads)   *)
(***************************************************************************)
Tk(type) == [type |-> type, tag |-> <<>>, children |-> <<>>, info |-> "", content |-> <<>>]
HeadingOpen(level) == [Tk("heading_open") EXCEPT !.tag = <<"h", level>>]
Inline(chs) == [Tk("inline") EXCEPT !.children = chs]
Fence(info, content) == [Tk("fence") EXCEPT !.info = info, !.content = content]

\* tokens[k] of the source, k 0-based
Tok(toks, k) == toks[k + 1]
\* tokens[k] raises IndexError unless k < len(tokens)
InRange(toks, k) == k < Len(toks)

(***************************************************************************)
(* The Block Compiler: _markdown_to_notion_blocks                          *)
(* The state of one call is [i, blocks, origins, raised].                  *)
(***************************************************************************)
CompilerInit == [i |-> 0, blocks |-> <<>>, origins |-> <<>>, raised |-> FALSE]

\* a plausible bug: blocks.insert(0, block)
EmitFirst(st, block, at) ==
    [st EXCEPT !.blocks = <<block>> \o @, !.origins = <<at>> \o @]

\* blocks.append(block); `at` is the position of the token the block comes from
Emit(st, block, at) ==
    [st EXCEPT !.blocks = Append(@, block), !.origins = Append(@, at)]

\* an IndexError leaves the function
Raise(st) == [st EXCEPT !.raised = TRUE]

\* int(token.tag[1])
HeadingLevel(token) == DigitValue(token.tag[2])

HeadingBlock(level, rich_text) == [type |-> "heading", level |-> level, rich_text |-> rich_text]

\* if token.type == 'heading_open'
HeadingStep(toks, st) ==
    LET heading_level == HeadingLevel(Tok(toks, st.i))
    IN IF ~InRange(toks, st.i + 1) THEN Raise(st)
       ELSE [Emit(st, HeadingBlock(heading_level, MdTokenToRichText(Tok(toks, st.i + 1))), st.i)
                EXCEPT !.i = st.i + 3]

\* a plausible bug: only zero-length text runs are filtered
SignificantNonEmpty(chs) == SelectSeq(chs, LAMBDA ch : ch.type # "text" \/ ch.content # <<>>)

\* [child for child in inline_token.children if child.type != 'text' or child.content.strip()]
SignificantChildren(chs) == SelectSeq(chs, LAMBDA ch : ch.type # "text" \/ Strip(ch.content) # <<>>)

IsImageBlock(inline_token) ==
    /\ inline_token.children # <<>>
    /\ LET significant_children == SignificantChildren(inline_token.children)
       IN Len(significant_children) = 1 /\ significant_children[1].type = "image"

ImageBlock(url) == [type |-> "image", url |-> url]
ParagraphBlock(rich_text) == [type |-> "paragraph", rich_text |-> rich_text]

\* if token.type == 'paragraph_open'
ParagraphStep(toks, st) ==
    IF ~InRange(toks, st.i + 1) THEN Raise(st)
    ELSE LET inline_token == Tok(toks, st.i + 1)
             image_token == SelectSeq(inline_token.children, LAMBDA ch : ch.type = "image")[1]
             rich_text == MdTokenToRichText(inline_token)
             emitted == IF IsImageBlock(inline_token)
                        THEN Emit(st, ImageBlock(image_token.src), st.i)
                        ELSE IF rich_text # <<>>
                             THEN Emit(st, ParagraphBlock(rich_text), st.i)
                             ELSE st
         IN [emitted EXCEPT !.i = st.i + 3]

ListItemBlock(list_type, rich_text) == [type |-> list_type, rich_text |-> rich_text]

ListCloses == {"bullet_list_close", "ordered_list_close"}

\* the while loop over j of the list branch; returns the state with i = j + 1
RECURSIVE ListScan(_, _, _, _)
ListScan(toks, j, list_type, st) ==
    IF InRange(toks, j) /\ Tok(toks, j).type \notin ListCloses
    THEN IF Tok(toks, j).type = "list_item_open"
         THEN IF ~InRange(toks, j + 2) THEN Raise(st)
              ELSE ListScan(toks, j + 1, list_type,
                            Emit(st, ListItemBlock(list_type, MdTokenToRichText(Tok(toks, j + 2))), j))
         ELSE ListScan(toks, j + 1, list_type, st)
    ELSE [st EXCEPT !.i = j + 1]

\* if token.type in ['bullet_list_open', 'ordered_list_open']
ListStep(toks, st) ==
    LET list_type == IF Tok(toks, st.i).type = "bullet_list_open"
                     THEN "bulleted_list_item" ELSE "numbered_list_item"
    IN ListScan(toks, st.i + 1, list_type, st)

PlainText == "plain text"

CodeBlock(content, language) ==
    [type |-> "code", rich_text |-> <<[type |-> "text", content |-> content]>>, language |-> language]

\* language always copied from token.info, without the "plain text" default
FenceStepUntagged(toks, st) ==
    LET token == Tok(toks, st.i)
    IN [Emit(st, CodeBlock(token.content, token.info), st.i) EXCEPT !.i = st.i + 1]

\* if token.type == 'fence'
FenceStep(toks, st) ==
    LET token == Tok(toks, st.i)
    IN [Emit(st, CodeBlock(token.content, IF token.info # "" THEN token.info ELSE PlainText), st.i)
           EXCEPT !.i = st.i + 1]

CalloutIcon == "light_bulb"
CalloutBlock(rich_text) == [type |-> "callout", rich_text |-> rich_text, icon |-> CalloutIcon]
QuoteBlock(rich_text) == [type |-> "quote", rich_text |-> rich_text]

\* rich_text and rich_text[0]['text']['content'].strip().startswith('[!')
IsCallout(rich_text) ==
    rich_text # <<>> /\ StartsWith(Strip(rich_text[1].content), CalloutMarker)

\* the while loop over j: the position of the first token of type `close` at or after j
RECURSIVE ScanTo(_, _, _)
ScanTo(toks, j, close) ==
    IF InRange(toks, j) /\ Tok(toks, j).type # close THEN ScanTo(toks, j + 1, close) ELSE j

\* if token.type == 'blockquote_open'
BlockquoteStep(toks, st) ==
    IF ~InRange(toks, st.i + 2) THEN Raise(st)
    ELSE LET rich_text == MdTokenToRichText(Tok(toks, st.i + 2))
             emitted == IF IsCallout(rich_text)
                        THEN Emit(st, CalloutBlock(rich_text), st.i)
                        ELSE Emit(st, QuoteBlock(rich_text), st.i)
         IN [emitted EXCEPT !.i = ScanTo(toks, st.i + 1, "blockquote_close") + 1]

DividerBlock == [type |-> "divider"]

\* if token.type == 'hr'
HrStep(toks, st) == [Emit(st, DividerBlock, st.i) EXCEPT !.i = st.i + 1]

\* The row scan: [raised, cells] over k until tr_close
RECURSIVE RowScan(_, _, _)
RowScan(toks, k, cells) ==
    IF InRange(toks, k) /\ Tok(toks, k).type # "tr_close"
    THEN IF Tok(toks, k).type \in {"th_open", "td_open"}
         THEN IF ~InRange(toks, k + 1) THEN [raised |-> TRUE, cells |-> cells]
              ELSE RowScan(toks, k + 1, Append(cells, MdTokenToRichText(Tok(toks, k + 1))))
         ELSE RowScan(toks, k + 1, cells)
    ELSE [raised |-> FALSE, cells |-> cells]

RowBlock(cells) == [type |-> "table_row", cells |-> cells]

NewTable ==
    [type |-> "table", table_width |-> 0, has_column_header |-> FALSE,
     has_row_header |-> FALSE, children |-> <<>>]

\* children.append(row_block); if not table_width: table_width = len(cells)
WithRow(table_block, cells) ==
    [table_block EXCEPT !.children = Append(@, RowBlock(cells)),
                        !.table_width = IF @ = 0 THEN Len(cells) ELSE @]

\* The table scan: [raised, j, table] over j until table_close
RECURSIVE TableScan(_, _, _)
TableScan(toks, j, table_block) ==
    IF InRange(toks, j) /\ Tok(toks, j).type # "table_close"
    THEN CASE Tok(toks, j).type = "thead_open" ->
                 TableScan(toks, j + 1, [table_block EXCEPT !.has_column_header = TRUE])
           [] Tok(toks, j).type = "tr_open" ->
                 LET row == RowScan(toks, j + 1, <<>>)
                 IN IF row.raised THEN [raised |-> TRUE, j |-> j, table |-> table_block]
                    ELSE TableScan(toks, j + 1, WithRow(table_block, row.cells))
           [] OTHER -> TableScan(toks, j + 1, table_block)
    ELSE [raised |-> FALSE, j |-> j, table |-> table_block]

\* one table_block dict made before the loop and reused by every table: each
\* scan adds its rows to the dict the output already holds
TableStepShared(toks, st) ==
    LET tables == SelectSeq(st.blocks, LAMBDA b : b.type = "table")
        scan == TableScan(toks, st.i + 1, IF tables = <<>> THEN NewTable ELSE tables[1])
        aliased == [n \in 1..Len(st.blocks) |->
                       IF st.blocks[n].type = "table" THEN scan.table ELSE st.blocks[n]]
    IN IF scan.raised THEN Raise(st)
       ELSE [Emit([st EXCEPT !.blocks = aliased], scan.table, st.i) EXCEPT !.i = scan.j + 1]

\* if token.type == 'table_open'
TableStep(toks, st) ==
    LET scan == TableScan(toks, st.i + 1, NewTable)
    IN IF scan.raised THEN Raise(st)
       ELSE [Emit(st, scan.table, st.i) EXCEPT !.i = scan.j + 1]

\* the trailing `i += 1` left out
SkipStepStuck(toks, st) == st

\* the trailing `i += 1`
SkipStep(toks, st) == [st EXCEPT !.i = st.i + 1]

DispatchedTypes ==
    {"heading_open", "paragraph_open", "bullet_list_open", "ordered_list_open",
     "fence", "blockquote_open", "hr", "table_open"}

(***************************************************************************)
(* Inline children (markdown-it child tokens)                              *)
(***************************************************************************)
Text(content) == [type |-> "text", content |-> content]
CodeInline(content) == [type |-> "code_inline", content |-> content]
LinkOpen(href) == [type |-> "link_open", href |-> href]
Image(src) == [type |-> "image", src |-> src]
Mark(type) == [type |-> type]

ChildAlphabet ==
    { Text(<<>>), Text(<<"a">>), CodeInline(<<"c">>),
      Mark("strong_open"), Mark("strong_close"), Mark("em_open"), Mark("em_close"),
      LinkOpen("u1"), LinkOpen("u2"), LinkOpen(""), Mark("link_close"),
      Mark("softbreak") }

RECURSIVE SeqsUpTo(_, _)
SeqsUpTo(S, n) ==
    IF n = 0 THEN {<<>>}
    ELSE LET shorter == SeqsUpTo(S, n - 1)
         IN shorter \cup {Append(s, x) : s \in {t \in shorter : Len(t) = n - 1}, x \in S}

\* `**A *B* ** C`: strong_open, A, em_open, B, em_close, strong_close, C
NestedExample ==
    << Mark("strong_open"), Text(<<"A">>), Mark("em_open"), Text(<<"B">>),
       Mark("em_close"), Mark("strong_close"), Text(<<"C">>) >>

\* `**text `code` here**` inside a link
CodeInBoldExample ==
    << LinkOpen("u1"), Mark("strong_open"), Text(<<"t">>), CodeInline(<<"c">>),
       Text(<<"h">>), Mark("strong_close"), Mark("link_close") >>

ChildSeqs == SeqsUpTo(ChildAlphabet, MaxChildren) \cup {NestedExample, CodeInBoldExample}

(***************************************************************************)
(* The Inline Formatter as a process: one action per branch of the loop    *)
(***************************************************************************)
BlockIdle ==
    /\ tokens = <<>> /\ i = 0 /\ blocks = <<>> /\ origins = <<>>
    /\ pc = "idle" /\ source = "none" /\ iterations = 0

CallsIdle == compilations = <<>>
ClientIdle == calls = <<>> /\ job = [kind |-> "none"]
SplitterIdle == file_content = <<>> /\ parsed = <<>>
RestIdle == CallsIdle /\ ClientIdle /\ SplitterIdle

InlineIdle ==
    /\ children = <<>> /\ cidx = 0 /\ active_annotations = {} /\ link_url = <<>>
    /\ rich_text_objects = <<>> /\ fpc = "idle"

InitInline ==
    /\ BlockIdle
    /\ RestIdle
    /\ children \in ChildSeqs
    /\ cidx = 0
    /\ active_annotations = {}
    /\ link_url = <<>>
    /\ rich_text_objects = <<>>
    /\ fpc = "scan"

FormatterState == [annotations |-> active_annotations, link |-> link_url, out |-> rich_text_objects]

CurChild == children[cidx + 1]

\* the assignments of one loop iteration
Advance(st) ==
    /\ active_annotations' = st.annotations
    /\ link_url' = st.link
    /\ rich_text_objects' = st.out
    /\ cidx' = cidx + 1
    /\ UNCHANGED <<children, fpc>>
    /\ UNCHANGED <<blockVars, restVars>>

Scanning == fpc = "scan" /\ cidx < Len(children)

TextChild == Scanning /\ CurChild.type = "text" /\ Advance(OnText(FormatterState, CurChild))
StrongOpen == Scanning /\ CurChild.type = "strong_open" /\ Advance(OnStrongOpen(FormatterState))
StrongClose == Scanning /\ CurChild.type = "strong_close" /\ Advance(OnStrongClose(FormatterState))
EmOpen == Scanning /\ CurChild.type = "em_open" /\ Advance(OnEmOpen(FormatterState))
EmClose == Scanning /\ CurChild.type = "em_close" /\ Advance(OnEmClose(FormatterState))
CodeInlineChild == Scanning /\ CurChild.type = "code_inline" /\ Advance(OnCodeInline(FormatterState, CurChild))
LinkOpenChild == Scanning /\ CurChild.type = "link_open" /\ Advance(OnLinkOpen(FormatterState, CurChild))
LinkCloseChild == Scanning /\ CurChild.type = "link_close" /\ Advance(OnLinkClose(FormatterState))

OtherChild ==
    /\ Scanning
    /\ CurChild.type \notin {"text", "strong_open", "strong_close", "em_open", "em_close",
                             "code_inline", "link_open", "link_close"}
    /\ Advance(FormatterState)

\* `return rich_text_objects` (also the early `return []` of a token without children)
FormatterReturn ==
    /\ fpc = "scan"
    /\ cidx >= Len(children)
    /\ fpc' = "done"
    /\ UNCHANGED <<children, cidx, active_annotations, link_url, rich_text_objects>>
    /\ UNCHANGED <<blockVars, restVars>>

NextInline ==
    \/ TextChild
    \/ StrongOpen
    \/ StrongClose
    \/ EmOpen
    \/ EmClose
    \/ CodeInlineChild
    \/ LinkOpenChild
    \/ LinkCloseChild
    \/ OtherChild
    \/ FormatterReturn

SpecInline == InitInline /\ [][NextInline]_vars

(***************************************************************************)
(* Token streams: the output of md.parse(md_body)                          *)
(***************************************************************************)
UrlPng == "url.png"

InlEmpty == Inline(<<>>)
InlA == Inline(<<Text(<<"a">>)>>)
InlSpace == Inline(<<Text(<<" ">>)>>)
InlBold == Inline(<<Mark("strong_open"), Text(<<"a">>), Mark("strong_close")>>)
InlImage == Inline(<<Image(UrlPng)>>)
InlEmptyTextImage == Inline(<<Text(<<>>), Image(UrlPng)>>)
InlSpaceImage == Inline(<<Text(<<" ">>), Image(UrlPng)>>)
InlTextImage == Inline(<<Text(<<"a">>), Image(UrlPng)>>)
InlCallout == Inline(<<Text(<<"[", "!", "N">>)>>)
InlSpaceCallout == Inline(<<Text(<<" ", "[", "!">>)>>)

Digits == <<"1", "2", "3", "4", "5", "6", "7", "8", "9">>

Heading(level, inl) == <<HeadingOpen(Digits[level]), inl, Tk("heading_close")>>
Paragraph(inl) == <<Tk("paragraph_open"), inl, Tk("paragraph_close")>>
Item(body) == <<Tk("list_item_open")>> \o body \o <<Tk("list_item_close")>>
BulletList(items) == <<Tk("bullet_list_open")>> \o items \o <<Tk("bullet_list_close")>>
OrderedList(items) == <<Tk("ordered_list_open")>> \o items \o <<Tk("ordered_list_close")>>
Blockquote(body) == <<Tk("blockquote_open")>> \o body \o <<Tk("blockquote_close")>>

\* the cell of column col: th_open/td_open, inline, th_close/td_close
Cell(kind, col) ==
    <<Tk(kind \o "_open"),
      Inline(<<Text(<<IF kind = "th" THEN "h" ELSE "d", Digits[col]>>)>>),
      Tk(kind \o "_close")>>

RECURSIVE Cells(_, _)
Cells(kind, n) == IF n = 0 THEN <<>> ELSE Cells(kind, n - 1) \o Cell(kind, n)

Row(kind, n) == <<Tk("tr_open")>> \o Cells(kind, n) \o <<Tk("tr_close")>>

RECURSIVE Rows(_)
Rows(counts) == IF counts = <<>> THEN <<>> ELSE Row("td", Head(counts)) \o Rows(Tail(counts))

TableHead(n) == <<Tk("thead_open")>> \o Row("th", n) \o <<Tk("thead_close")>>
TableBody(counts) ==
    IF counts = <<>> THEN <<>> ELSE <<Tk("tbody_open")>> \o Rows(counts) \o <<Tk("tbody_close")>>
Table(head, counts) == <<Tk("table_open")>> \o head \o TableBody(counts) \o <<Tk("table_close")>>

\* a GFM table: a header row of n >= 1 cells, body rows of n cells each
GfmTables ==
    { Table(TableHead(n), [r \in 1..rows |-> n]) : n \in 1..MaxCells, rows \in 0..MaxRows }

\* table-shaped streams no GFM tokenizer emits: no header, empty or ragged rows
RaggedTables ==
    { Table(<<>>, counts) : counts \in SeqsUpTo(0..MaxCells, MaxRows) }
    \cup { Table(TableHead(n), counts) : n \in 0..MaxCells, counts \in SeqsUpTo(0..MaxCells, MaxRows) }

\* the block constructs of a document, as the tokenizer emits them
Constructs ==
    { Heading(level, InlA) : level \in 1..6 }
    \cup { Heading(1, InlEmpty) }
    \cup { Paragraph(inl) : inl \in {InlA, InlSpace, InlBold, InlImage, InlEmptyTextImage,
                                      InlSpaceImage, InlTextImage, InlCallout} }
    \cup { BulletList(Item(Paragraph(InlA))),
           BulletList(Item(Paragraph(InlA)) \o Item(Paragraph(InlBold))),
           OrderedList(Item(Paragraph(InlA)) \o Item(Paragraph(InlA))),
           BulletList(Item(<<>>)),
           BulletList(Item(Paragraph(InlA) \o BulletList(Item(Paragraph(InlBold))))
                      \o Item(Paragraph(InlA))) }
    \cup { <<Fence("", <<"x">>)>>, <<Fence("python", <<"x">>)>>, <<Tk("hr")>> }
    \cup { Blockquote(<<>>),
           Blockquote(Paragraph(InlA)),
           Blockquote(Paragraph(InlCallout)),
           Blockquote(Paragraph(InlSpaceCallout)),
           Blockquote(Paragraph(InlA) \o Paragraph(InlCallout)),
           Blockquote(Heading(1, InlCallout)),
           Blockquote(Blockquote(Paragraph(InlCallout))),
           Blockquote(Blockquote(Paragraph(InlA)) \o Paragraph(InlBold)),
           Blockquote(Table(TableHead(1), <<>>)) }
    \cup GfmTables

RECURSIVE Documents(_)
Documents(n) ==
    IF n = 0 THEN {<<>>}
    ELSE LET shorter == Documents(n - 1)
         IN shorter \cup {d \o c : d \in shorter, c \in Constructs}

\* the tokens of the exhaustively enumerated streams, truncated streams included
StreamAlphabet ==
    { HeadingOpen("1"), HeadingOpen("4"), Tk("paragraph_open"), Tk("paragraph_close"),
      InlA, InlCallout,
      Tk("bullet_list_open"), Tk("bullet_list_close"), Tk("list_item_open"),
      Tk("blockquote_open"), Tk("blockquote_close"),
      Fence("", <<"x">>), Tk("hr"),
      Tk("table_open"), Tk("table_close"), Tk("tr_open"), Tk("td_open") }

(***************************************************************************)
(* The Block Compiler as a process: one action per branch of the main loop *)
(***************************************************************************)
Init ==
    /\ InlineIdle
    /\ RestIdle
    /\ \/ source = "document" /\ tokens \in Documents(MaxConstructs)
       \/ source = "arbitrary" /\ tokens \in SeqsUpTo(StreamAlphabet, MaxLen)
       \/ source = "arbitrary" /\ tokens \in RaggedTables
    /\ i = 0
    /\ blocks = <<>>
    /\ origins = <<>>
    /\ iterations = 0
    /\ pc = "run"

CompilerState == [i |-> i, blocks |-> blocks, origins |-> origins, raised |-> FALSE]

\* the assignments of one iteration of the main loop
Apply(st) ==
    /\ i' = st.i
    /\ blocks' = st.blocks
    /\ origins' = st.origins
    /\ pc' = IF st.raised THEN "raised" ELSE "run"
    /\ iterations' = iterations + 1
    /\ UNCHANGED <<tokens, source>>
    /\ UNCHANGED <<inlineVars, restVars>>

Running == pc = "run" /\ i < Len(tokens)
Cur == Tok(tokens, i)

HeadingOpenToken == Running /\ Cur.type = "heading_open" /\ Apply(HeadingStep(tokens, CompilerState))
ParagraphOpenToken == Running /\ Cur.type = "paragraph_open" /\ Apply(ParagraphStep(tokens, CompilerState))
ListOpenToken ==
    /\ Running
    /\ Cur.type \in {"bullet_list_open", "ordered_list_open"}
    /\ Apply(ListStep(tokens, CompilerState))
FenceToken == Running /\ Cur.type = "fence" /\ Apply(FenceStep(tokens, CompilerState))
BlockquoteOpenToken == Running /\ Cur.type = "blockquote_open" /\ Apply(BlockquoteStep(tokens, CompilerState))
HrToken == Running /\ Cur.type = "hr" /\ Apply(HrStep(tokens, CompilerState))
TableOpenToken == Running /\ Cur.type = "table_open" /\ Apply(TableStep(tokens, CompilerState))
OtherToken == Running /\ Cur.type \notin DispatchedTypes /\ Apply(SkipStep(tokens, CompilerState))

\* `return blocks` when the loop condition i < len(tokens) fails
Return ==
    /\ pc = "run"
    /\ i >= Len(tokens)
    /\ pc' = "done"
    /\ UNCHANGED <<tokens, i, blocks, origins, source, iterations>>
    /\ UNCHANGED <<inlineVars, restVars>>

Next ==
    \/ HeadingOpenToken
    \/ ParagraphOpenToken
    \/ ListOpenToken
    \/ FenceToken
    \/ BlockquoteOpenToken
    \/ HrToken
    \/ TableOpenToken
    \/ OtherToken
    \/ Return

Spec == Init /\ [][Next]_vars

(***************************************************************************)
(* Notions the properties are stated in                                    *)
(***************************************************************************)
Last(seq) == seq[Len(seq)]
IsPrefixOf(s, t) == Len(s) <= Len(t) /\ SubSeq(t, 1, Len(s)) = s
Max(S) == CHOOSE x \in S : \A y \in S : y <= x

\* rich text with some text content that is not whitespace
HasVisibleText(rich_text) ==
    \E n \in 1..Len(rich_text) :
        \E k \in 1..Len(rich_text[n].content) : rich_text[n].content[k] \notin {" ", "\t", "\n"}

RichTextBlockTypes ==
    {"heading", "paragraph", "bulleted_list_item", "numbered_list_item", "quote", "callout"}

\* the kind of token a block of the given type comes from
OriginType(type) ==
    CASE type = "heading" -> "heading_open"
      [] type \in {"paragraph", "image"} -> "paragraph_open"
      [] type \in {"bulleted_list_item", "numbered_list_item"} -> "list_item_open"
      [] type = "code" -> "fence"
      [] type \in {"quote", "callout"} -> "blockquote_open"
      [] type = "divider" -> "hr"
      [] type = "table" -> "table_open"

(***************************************************************************)
(* Properties of the Block Compiler                                        *)
(***************************************************************************)

\* C1: the compiler never returns a heading, paragraph, list-item, quote or
\* callout block whose rich text has no non-whitespace text content (stated
\* here for the streams a tokenizer emits; the claim states it for every stream).
C1_NoBlankRichTextBlock ==
    (pc = "done" /\ source = "document") =>
        \A n \in 1..Len(blocks) :
            blocks[n].type \in RichTextBlockTypes => HasVisibleText(blocks[n].rich_text)

\* C2: the compiler never reads a token at a position at or past the end of
\* the stream (stated here for the streams a tokenizer emits; the claim states
\* it for truncated streams as well).
C2_LookAheadBounded == source = "document" => pc # "raised"

\* C3: the output preserves document order: every block comes from a token of
\* its kind, and a block that precedes another comes from a strictly smaller
\* stream position.
C3_DocumentOrder ==
    /\ Len(origins) = Len(blocks)
    /\ \A n \in 1..Len(blocks) :
          /\ origins[n] \in 0..(Len(tokens) - 1)
          /\ Tok(tokens, origins[n]).type = OriginType(blocks[n].type)
    /\ \A m, n \in 1..Len(blocks) : m < n => origins[m] < origins[n]

\* C3 witness: a returned output of three blocks, two of them list items of one list scan
C3_Witness ==
    /\ pc = "done"
    /\ Len(blocks) = 3
    /\ blocks[2].type = "bulleted_list_item"
    /\ blocks[3].type = "bulleted_list_item"
    /\ origins[1] < origins[2]

\* C4: every heading block returned has level 1, 2 or 3.
C4_HeadingLevelAtMost3 ==
    (pc = "done" /\ source = "document") =>
        \A n \in 1..Len(blocks) : blocks[n].type = "heading" => blocks[n].level \in {1, 2, 3}

(***************************************************************************)
(* Properties of the Inline Formatter                                      *)
(***************************************************************************)
AtChild(type) == fpc = "scan" /\ cidx < Len(children) /\ children[cidx + 1].type = type

\* exactly one span is appended by the step
AppendsOneSpan ==
    /\ Len(rich_text_objects') = Len(rich_text_objects) + 1
    /\ SubSeq(rich_text_objects', 1, Len(rich_text_objects)) = rich_text_objects

\* C5: the span of a code_inline child carries exactly the flag `code` and no
\* link target whatever state is active, and no span carries `code` together
\* with `bold` or `italic`.
C5_CodeSpanExclusive ==
    /\ [][AtChild("code_inline") =>
            /\ AppendsOneSpan
            /\ LET span == Last(rich_text_objects')
               IN /\ span.content = children[cidx + 1].content
                  /\ "annotations" \in DOMAIN span
                  /\ span.annotations = {"code"}
                  /\ "link" \notin DOMAIN span]_vars
    /\ [](\A n \in 1..Len(rich_text_objects) :
            LET span == rich_text_objects[n]
            IN ("annotations" \in DOMAIN span /\ "code" \in span.annotations)
                  => span.annotations = {"code"})

\* C5 witness: a code span was emitted while bold and a link were active
C5_Witness ==
    /\ fpc = "scan"
    /\ cidx >= 1
    /\ children[cidx].type = "code_inline"
    /\ "bold" \in active_annotations
    /\ link_url = <<"u1">>
    /\ Last(rich_text_objects).annotations = {"code"}

\* the flag is active at child n: an open marker before n with no close marker since
ActiveAt(chs, n, open, close) ==
    \E k \in 1..(n - 1) :
        chs[k].type = open /\ \A m \in (k + 1)..(n - 1) : chs[m].type # close

FlagsAt(chs, n) ==
    (IF ActiveAt(chs, n, "strong_open", "strong_close") THEN {"bold"} ELSE {})
    \cup (IF ActiveAt(chs, n, "em_open", "em_close") THEN {"italic"} ELSE {})

\* the link_open children before n not yet followed by a link_close
OpenLinksAt(chs, n) ==
    {k \in 1..(n - 1) :
        chs[k].type = "link_open" /\ \A m \in (k + 1)..(n - 1) : chs[m].type # "link_close"}

\* the span a non-empty text child emits; Linked(href) says when the href is attached
TextSpanRule(Linked(_)) ==
    (AtChild("text") /\ children[cidx + 1].content # <<>>) =>
        /\ AppendsOneSpan
        /\ LET span == Last(rich_text_objects')
               flags == FlagsAt(children, cidx + 1)
               links == OpenLinksAt(children, cidx + 1)
           IN /\ span.content = children[cidx + 1].content
              /\ IF flags = {} THEN "annotations" \notin DOMAIN span
                 ELSE "annotations" \in DOMAIN span /\ span.annotations = flags
              /\ IF links # {} /\ Linked(children[Max(links)].href)
                 THEN "link" \in DOMAIN span /\ span.link = children[Max(links)].href
                 ELSE "link" \notin DOMAIN span

\* strong_open, A, em_open, B, em_close, strong_close, C: A bold, B bold and italic, C plain
NestedExampleResult ==
    (children = NestedExample /\ fpc = "done") =>
        rich_text_objects =
            << [type |-> "text", content |-> <<"A">>, annotations |-> {"bold"}],
               [type |-> "text", content |-> <<"B">>, annotations |-> {"bold", "italic"}],
               [type |-> "text", content |-> <<"C">>] >>

AnyHref(href) == TRUE
NonEmptyHref(href) == href # ""

\* C6 as stated: every non-empty text child emits one span with the active
\* bold/italic flags and the href of the latest open link, whatever that href is.
C6_AsStated ==
    /\ [][TextSpanRule(AnyHref)]_vars
    /\ [][IsPrefixOf(rich_text_objects, rich_text_objects')]_vars
    /\ []NestedExampleResult

\* C6 amended: every non-empty text child emits one span with the active
\* bold/italic flags (no annotations field when none) and the href of the
\* latest open link when that href is not the empty string (no link otherwise);
\* spans already emitted never change; the nested example gives bold, bold+italic, plain.
C6_TextSpanFlagsAndLink ==
    /\ [][TextSpanRule(NonEmptyHref)]_vars
    /\ [][IsPrefixOf(rich_text_objects, rich_text_objects')]_vars
    /\ []NestedExampleResult

\* C6 witness: a text span was emitted in bold while a link with an empty href was open
C6_Witness ==
    /\ fpc = "scan"
    /\ cidx >= 1
    /\ children[cidx].type = "text"
    /\ children[cidx].content # <<>>
    /\ link_url = <<"">>
    /\ "bold" \in active_annotations
    /\ Last(rich_text_objects) = [type |-> "text", content |-> children[cidx].content,
                                  annotations |-> {"bold"}]

(***************************************************************************)
(* Properties of the paragraph, blockquote and table branches              *)
(***************************************************************************)
\* exactly one block is appended by the step
AppendsOneBlock ==
    /\ Len(blocks') = Len(blocks) + 1
    /\ SubSeq(blocks', 1, Len(blocks)) = blocks

AtToken(type) == pc = "run" /\ i < Len(tokens) /\ Tok(tokens, i).type = type

NotZeroContent(ch) == ch.type # "text" \/ Len(ch.content) > 0
NotWhitespaceOnly(ch) ==
    ch.type # "text" \/ \E k \in 1..Len(ch.content) : ch.content[k] \notin {" ", "\t", "\n"}

\* what a paragraph yields; Kept(child) says which inline children count
ParagraphRule(Kept(_)) ==
    AtToken("paragraph_open") =>
        LET chs == IF i + 1 < Len(tokens) THEN Tok(tokens, i + 1).children ELSE <<>>
            kept == SelectSeq(chs, Kept)
        IN IF Len(kept) = 1 /\ kept[1].type = "image"
           THEN blocks' = Append(blocks, [type |-> "image", url |-> kept[1].src])
           ELSE \/ blocks' = blocks
                \/ AppendsOneBlock /\ Last(blocks').type = "paragraph"

\* C7 as stated: a paragraph yields an image block exactly when its inline
\* children without the text runs of zero content are one image, and then no
\* paragraph block; otherwise no image block.
C7_AsStated == [][ParagraphRule(NotZeroContent)]_vars

\* C7 amended: a paragraph yields an image block (url from the image's src)
\* exactly when its inline children without the text runs that hold only
\* whitespace (the empty ones included) are one image, and then no paragraph
\* block; otherwise no image block.
C7_ImageOnlyParagraph == [][ParagraphRule(NotWhitespaceOnly)]_vars

\* C7 witness: a paragraph of a whitespace text run and an image has yielded an image block
C7_Witness ==
    /\ pc = "run"
    /\ i >= 3
    /\ Tok(tokens, i - 3).type = "paragraph_open"
    /\ Tok(tokens, i - 2) = InlSpaceImage
    /\ blocks # <<>>
    /\ Last(blocks) = [type |-> "image", url |-> UrlPng]
    /\ Last(origins) = i - 3

OpenTypes ==
    {"heading_open", "paragraph_open", "bullet_list_open", "ordered_list_open", "list_item_open",
     "blockquote_open", "table_open", "thead_open", "tbody_open", "tr_open", "th_open", "td_open"}
CloseTypes ==
    {"heading_close", "paragraph_close", "bullet_list_close", "ordered_list_close",
     "list_item_close", "blockquote_close", "table_close", "thead_close", "tbody_close",
     "tr_close", "th_close", "td_close"}

\* the position of the close token that balances an open token; q is a position
\* inside the construct and depth the number of constructs open there
RECURSIVE BalancedClose(_, _, _)
BalancedClose(toks, q, depth) ==
    IF q >= Len(toks) THEN q
    ELSE IF Tok(toks, q).type \in OpenTypes THEN BalancedClose(toks, q + 1, depth + 1)
    ELSE IF Tok(toks, q).type \in CloseTypes
         THEN IF depth = 1 THEN q ELSE BalancedClose(toks, q + 1, depth - 1)
    ELSE BalancedClose(toks, q + 1, depth)

\* the position of the first paragraph_open among the constructs that start at
\* q and its later siblings, -1 when the enclosing construct closes before one
RECURSIVE FirstParagraph(_, _)
FirstParagraph(toks, q) ==
    IF q >= Len(toks) \/ Tok(toks, q).type \in CloseTypes THEN -1
    ELSE IF Tok(toks, q).type = "paragraph_open" THEN q
    ELSE IF Tok(toks, q).type \in OpenTypes
         THEN FirstParagraph(toks, BalancedClose(toks, q + 1, 1) + 1)
    ELSE FirstParagraph(toks, q + 1)

\* the formatted rich text of the first paragraph of the blockquote opened at p
FirstParagraphRichText(toks, p) ==
    LET q == FirstParagraph(toks, p + 1)
    IN IF q >= 0 /\ q + 1 < Len(toks) THEN MdTokenToRichText(Tok(toks, q + 1)) ELSE <<>>

\* C8: a blockquote yields a callout with the light-bulb icon exactly when the
\* formatted rich text of its first paragraph is non-empty and its first span's
\* content, trimmed, starts with `[!`; otherwise it yields a plain quote
\* (stated for the blockquotes of tokenizer streams whose step returns).
C8_CalloutIffFirstParagraphMarked ==
    [][(AtToken("blockquote_open") /\ source = "document" /\ pc' = "run") =>
          LET rich_text == FirstParagraphRichText(tokens, i)
              marked == rich_text # <<>> /\ StartsWith(Strip(rich_text[1].content), <<"[", "!">>)
          IN /\ AppendsOneBlock
             /\ IF marked
                THEN Last(blocks') = [type |-> "callout", rich_text |-> rich_text,
                                      icon |-> "light_bulb"]
                ELSE Last(blocks').type = "quote"]_vars

\* the positions of S in increasing order
RECURSIVE Ascending(_)
Ascending(S) ==
    IF S = {} THEN <<>>
    ELSE LET least == CHOOSE x \in S : \A y \in S : x <= y
         IN <<least>> \o Ascending(S \ {least})

PositionsOf(toks, types, from, to) ==
    {q \in from..to : q >= 0 /\ q < Len(toks) /\ Tok(toks, q).type \in types}

\* the first position after p of a token of the given type, the stream's length when none
FirstAfter(toks, p, type) ==
    LET found == PositionsOf(toks, {type}, p + 1, Len(toks) - 1)
    IN IF found = {} THEN Len(toks) ELSE CHOOSE x \in found : \A y \in found : x <= y

\* the rows the table opened at p has: one per tr_open up to the table_close, each
\* with one cell per cell-open up to the row's tr_close, formatted from the next token
RowsOfTable(toks, p) ==
    LET row_opens == Ascending(PositionsOf(toks, {"tr_open"}, p + 1, FirstAfter(toks, p, "table_close") - 1))
        CellsOf(r) ==
            LET cell_opens == Ascending(PositionsOf(toks, {"th_open", "td_open"}, r + 1,
                                                    FirstAfter(toks, r, "tr_close") - 1))
            IN [c \in 1..Len(cell_opens) |-> MdTokenToRichText(Tok(toks, cell_opens[c] + 1))]
    IN [r \in 1..Len(row_opens) |-> [type |-> "table_row", cells |-> CellsOf(row_opens[r])]]

HeaderOfTable(toks, p) ==
    PositionsOf(toks, {"thead_open"}, p + 1, FirstAfter(toks, p, "table_close") - 1) # {}

ThreeColumnTable == Table(TableHead(3), <<3>>)

\* C9: every table_open of the stream yields exactly one table block, with one
\* row per tr_open and one cell per cell-open in stream order, and with
\* has_column_header true exactly when a thead_open occurs inside the table; a
\* header row and a data row of 3 cells give width 3, the header flag and 2 rows of 3 cells
\* (stated for the streams a tokenizer emits).
C9_OneTablePerTableOpen ==
    (pc = "done" /\ source = "document") =>
        LET opens == Ascending(PositionsOf(tokens, {"table_open"}, 0, Len(tokens) - 1))
            tables == SelectSeq(blocks, LAMBDA b : b.type = "table")
        IN /\ Len(tables) = Len(opens)
           /\ \A n \in 1..Len(opens) :
                 /\ tables[n].children = RowsOfTable(tokens, opens[n])
                 /\ tables[n].has_column_header = HeaderOfTable(tokens, opens[n])
           /\ tokens = ThreeColumnTable =>
                 /\ blocks[1].table_width = 3
                 /\ blocks[1].has_column_header
                 /\ Len(blocks[1].children) = 2
                 /\ \A r \in 1..2 : Len(blocks[1].children[r].cells) = 3

C11_FenceYieldsOneCodeBlock ==
    [][AtToken("fence") =>
          LET token == Tok(tokens, i)
          IN /\ AppendsOneBlock
             /\ Last(blocks').type = "code"
             /\ Last(blocks').rich_text = <<[type |-> "text", content |-> token.content]>>
             /\ Last(blocks').language = (IF token.info = "" THEN "plain text" ELSE token.info)
             /\ i' = i + 1
             /\ pc' = "run"]_vars

C11_Witness ==
    /\ pc = "run"
    /\ i >= 1
    /\ Tok(tokens, i - 1) = Fence("", <<"x">>)
    /\ blocks # <<>>
    /\ Last(origins) = i - 1
    /\ Last(blocks).language = "plain text"

ScanCloses == {"bullet_list_close", "ordered_list_close", "blockquote_close", "table_close"}

\* C20: every iteration of the main loop that completes leaves the cursor
\* strictly greater than it found it, for every token stream; in a document it
\* moves by 1, by 3, or to the position after a close token found by a scan.
\* No pass begins more iterations than the stream has tokens: the loop runs only
\* while the cursor is inside the stream, so every pass ends, by returning or
\* by raising.
C20_CursorStrictlyIncreases ==
    [][(pc = "run" /\ iterations' # iterations) =>
          /\ i < Len(tokens)
          /\ iterations' = iterations + 1
          /\ iterations' <= Len(tokens)
          /\ pc' \in {"run", "raised"}
          /\ pc' = "run" =>
                /\ i' > i
                /\ source = "document" =>
                      \/ i' = i + 1
                      \/ i' = i + 3
                      \/ /\ InRange(tokens, i' - 1)
                         /\ Tok(tokens, i' - 1).type \in ScanCloses]_vars

\* a pass over a heading, a list and a table: steps of 3, to a list close, to a table close
C20_Witness ==
    /\ pc = "done"
    /\ source = "document"
    /\ Len(tokens) > 3
    /\ iterations = 2
    /\ Tok(tokens, 0).type = "heading_open"
    /\ Tok(tokens, 3).type = "table_open"
    /\ i = Len(tokens)

(***************************************************************************)
(* Properties of the list and blockquote scans and of the output sequence  *)
(***************************************************************************)
AtListOpen == AtToken("bullet_list_open") \/ AtToken("ordered_list_open")

\* C21: when the main loop is at a list-open token of a document, the
\* iteration appends one list-item block per list_item_open between that token
\* and the list-close that balances it (nested lists included), each of the
\* kind the opening tag gives, appends no other block, and leaves the cursor
\* at the token right after that balancing close.
C21_ListScanToMatchingClose ==
    [][(AtListOpen /\ source = "document") =>
          LET close == BalancedClose(tokens, i + 1, 1)
              items == Ascending(PositionsOf(tokens, {"list_item_open"}, i + 1, close - 1))
              list_type == IF Tok(tokens, i).type = "bullet_list_open"
                           THEN "bulleted_list_item" ELSE "numbered_list_item"
          IN /\ pc' = "run"
             /\ IsPrefixOf(blocks, blocks')
             /\ Len(blocks') = Len(blocks) + Len(items)
             /\ \A n \in 1..Len(items) :
                   /\ blocks'[Len(blocks) + n].type = list_type
                   /\ origins'[Len(blocks) + n] = items[n]
             /\ i' = close + 1]_vars

\* C22: when the main loop is at a blockquote-open token of a document, the
\* iteration appends exactly one block, a quote or a callout, whose rich text
\* is that of the first paragraph inside the blockquote, and leaves the cursor
\* at the token right after the blockquote-close that balances that open, so
\* that no token inside the blockquote is dispatched on afterwards.
C22_BlockquoteScanToMatchingClose ==
    [][(AtToken("blockquote_open") /\ source = "document") =>
          LET close == BalancedClose(tokens, i + 1, 1)
          IN /\ pc' = "run"
             /\ AppendsOneBlock
             /\ Last(blocks').type \in {"quote", "callout"}
             /\ Last(blocks').rich_text = FirstParagraphRichText(tokens, i)
             /\ Last(origins') = i
             /\ i' = close + 1]_vars

\* a close marker arrives while its style, or a link, is not active
AtStrayClose ==
    \/ AtChild("strong_close") /\ "bold" \notin active_annotations
    \/ AtChild("em_close") /\ "italic" \notin active_annotations
    \/ AtChild("link_close") /\ link_url = <<>>

\* C23: in the Inline Formatter a strong_close, em_close or link_close met
\* while bold, italic or a link is not active leaves the active annotations,
\* the link target and the spans emitted so far as they are, and the scan goes
\* on to the next child without an error; a token with no children returns
\* the empty span sequence.
C23_StrayCloseIsNoOp ==
    [][/\ AtStrayClose =>
              /\ active_annotations' = active_annotations
              /\ link_url' = link_url
              /\ rich_text_objects' = rich_text_objects
              /\ cidx' = cidx + 1
              /\ fpc' = "scan"
       /\ (children = <<>> /\ fpc = "scan") =>
              /\ fpc' = "done"
              /\ rich_text_objects' = <<>>]_vars

\* a stray em_close was passed in bold, after one span: bold and the span are kept
C23_Witness ==
    /\ children = <<Mark("strong_open"), Text(<<"a">>), Mark("em_close")>>
    /\ fpc = "scan"
    /\ cidx = 3
    /\ active_annotations = {"bold"}
    /\ link_url = <<>>
    /\ rich_text_objects = <<[type |-> "text", content |-> <<"a">>, annotations |-> {"bold"}]>>

\* C24: during a compilation the output only grows at its end: every step
\* leaves the output it found as a prefix of the output it leaves, so a block
\* once in the output, a table with its width, header flag, rows and cells
\* included, is the same in every later state, the returned one included.
C24_OutputAppendOnly ==
    [][/\ IsPrefixOf(blocks, blocks')
       /\ \A n \in 1..Len(blocks) : blocks'[n] = blocks[n]
       /\ pc \in {"done", "raised"} => blocks' = blocks]_vars

\* two tables were compiled one after the other: the first kept its one row
\* of one cell while the second got three rows of three cells
C24_Witness ==
    /\ pc = "done"
    /\ source = "document"
    /\ Len(blocks) = 2
    /\ blocks[1].type = "table"
    /\ blocks[1].table_width = 1
    /\ blocks[1].has_column_header
    /\ Len(blocks[1].children) = 1
    /\ blocks[2].type = "table"
    /\ blocks[2].table_width = 3
    /\ Len(blocks[2].children) = 3

(***************************************************************************)
(* Two calls of the Block Compiler side by side: each call has its own     *)
(* frame of locals (tokens, i, blocks); iterations of the two calls are    *)
(* taken in any order                                                      *)
(***************************************************************************)
MaxCallConstructs == 2    \* block constructs of a document given to one of the two calls

\* one iteration of `while i < len(tokens)`: the branch the token's type selects
MainLoopStep(toks, st) ==
    LET type == Tok(toks, st.i).type
    IN CASE type = "heading_open" -> HeadingStep(toks, st)
         [] type = "paragraph_open" -> ParagraphStep(toks, st)
         [] type \in {"bullet_list_open", "ordered_list_open"} -> ListStep(toks, st)
         [] type = "fence" -> FenceStep(toks, st)
         [] type = "blockquote_open" -> BlockquoteStep(toks, st)
         [] type = "hr" -> HrStep(toks, st)
         [] type = "table_open" -> TableStep(toks, st)
         [] OTHER -> SkipStep(toks, st)

\* the main loop run to its end by one caller alone
RECURSIVE RunLoop(_, _)
RunLoop(toks, st) ==
    IF st.raised \/ st.i >= Len(toks) THEN st ELSE RunLoop(toks, MainLoopStep(toks, st))

\* _markdown_to_notion_blocks on the stream md.parse returned: [blocks, raised, ...]
MarkdownToNotionBlocks(toks) == RunLoop(toks, CompilerInit)

\* `i = 0`, `blocks = []` of a new call
NewFrame(toks) == [tokens |-> toks, st |-> CompilerInit, pc |-> "run"]

\* one cursor for all calls, as a module-level `i` would be
StoreLocalsShared(frames, c, st) ==
    [d \in DOMAIN frames |->
        IF d = c THEN [frames[d] EXCEPT !.st = st] ELSE [frames[d] EXCEPT !.st.i = st.i]]

\* the assignments of an iteration go to the locals of the call that makes it
StoreLocals(frames, c, st) == [frames EXCEPT ![c].st = st]

CallConstructs ==
    { Heading(1, InlA),
      Paragraph(Inline(CodeInBoldExample)),
      BulletList(Item(Paragraph(InlA)) \o Item(Paragraph(InlBold))),
      Blockquote(<<>>) }

CallStreams == UNION {[1..n -> CallConstructs] : n \in 0..MaxCallConstructs}

RECURSIVE Flatten(_)
Flatten(ss) == IF ss = <<>> THEN <<>> ELSE Head(ss) \o Flatten(Tail(ss))

InitCalls ==
    /\ BlockIdle /\ InlineIdle /\ ClientIdle /\ SplitterIdle
    /\ \E d1 \in CallStreams, d2 \in CallStreams :
          /\ d1 # d2
          /\ compilations = [frames |-> <<NewFrame(Flatten(d1)), NewFrame(Flatten(d2))>>,
                             schedule |-> <<>>]

CallIds == {1, 2}

CallIteration(c) ==
    LET frame == compilations.frames[c]
        st == MainLoopStep(frame.tokens, frame.st)
    IN /\ frame.pc = "run"
       /\ frame.st.i < Len(frame.tokens)
       /\ compilations' =
             [frames |-> [StoreLocals(compilations.frames, c, st)
                             EXCEPT ![c].pc = IF st.raised THEN "raised" ELSE "run"],
              schedule |-> Append(compilations.schedule, c)]
       /\ UNCHANGED <<blockVars, inlineVars, clientVars, splitterVars>>

CallReturn(c) ==
    LET frame == compilations.frames[c]
    IN /\ frame.pc = "run"
       /\ frame.st.i >= Len(frame.tokens)
       /\ compilations' = [compilations EXCEPT !.frames[c].pc = "done"]
       /\ UNCHANGED <<blockVars, inlineVars, clientVars, splitterVars>>

NextCalls == \E c \in CallIds : CallIteration(c) \/ CallReturn(c)

SpecCalls == InitCalls /\ [][NextCalls]_vars

\* C12: when two calls compile different token streams with their iterations
\* taken in any order, each call returns exactly the block sequence the
\* compiler returns for its stream when it runs alone, and raises exactly
\* when it raises alone.
C12_CallsIndependent ==
    \A c \in DOMAIN compilations.frames :
        LET frame == compilations.frames[c]
            alone == MarkdownToNotionBlocks(frame.tokens)
        IN /\ frame.pc = "done" => (~alone.raised /\ frame.st.blocks = alone.blocks)
           /\ frame.pc = "raised" => alone.raised

\* both calls have returned after taking turns, with different results
C12_Witness ==
    /\ compilations # <<>>
    /\ Len(compilations.schedule) >= 4
    /\ SubSeq(compilations.schedule, 1, 4) = <<1, 2, 1, 2>>
    /\ \A c \in CallIds : compilations.frames[c].pc = "done"
    /\ compilations.frames[1].st.blocks # <<>>
    /\ compilations.frames[2].st.blocks # <<>>
    /\ compilations.frames[1].st.blocks # compilations.frames[2].st.blocks

(***************************************************************************)
(* publish_pages_to_notion (src/src/pages.py) with                         *)
(* find_page_by_title_and_parent (src/src/notion_utils.py): one action per *)
(* outcome of the loop body for one Markdown file.  `calls` is the record  *)
(* of the requests sent to the Notion client; the client's answers are     *)
(* inputs.  An optional value (None or a value) is <<>> or <<value>>.      *)
(***************************************************************************)
MaxFiles == 2      \* Markdown files of the published directory
MaxListed == 2     \* blocks the remote page lists as its children

\* str.lower() on the letters the titles of the model are written in
Lower(s) == [k \in 1..Len(s) |-> IF s[k] = "T" THEN "t" ELSE s[k]]

\* for page in response.get('results', []): the first page whose title and parent
\* match; page_title.lower() of a page without a title text raises AttributeError
RECURSIVE FindPageByTitleAndParent(_, _, _)
FindPageByTitleAndParent(results, title, parent_id) ==
    IF results = <<>> THEN [raised |-> FALSE, page |-> <<>>]
    ELSE LET page == Head(results)
         IN IF page.title = <<>> THEN [raised |-> TRUE, page |-> <<>>]
            ELSE IF Lower(page.title[1]) = Lower(title) /\ page.parent = parent_id
                 THEN [raised |-> FALSE, page |-> <<page>>]
                 ELSE FindPageByTitleAndParent(Tail(results), title, parent_id)

\* page_payload: properties.title, and icon and cover when the front matter has them
PagePayload(front_matter, title) ==
    [properties |-> [title |-> title],
     icon |-> IF "icon" \in DOMAIN front_matter THEN <<front_matter.icon>> ELSE <<>>,
     cover |-> IF "cover_url" \in DOMAIN front_matter THEN <<front_matter.cover_url>> ELSE <<>>]

\* _update_page_blocks: the requests it sends, given the children the list call returned
UpdatePageBlocks(page_id, existing_blocks, new_blocks) ==
    <<[api |-> "blocks.children.list", block_id |-> page_id]>>
    \o [k \in 1..Len(existing_blocks) |-> [api |-> "blocks.delete", block_id |-> existing_blocks[k]]]
    \o (IF new_blocks # <<>>
        THEN <<[api |-> "blocks.children.append", block_id |-> page_id, children |-> new_blocks]>>
        ELSE <<>>)

HasTitle(front_matter) == "title" \in DOMAIN front_matter /\ front_matter.title # <<>>
HasParent(front_matter) == "parent_page_id" \in DOMAIN front_matter /\ front_matter.parent_page_id # ""

\* the body of `for file_path in ...rglob('*.md')` for one file: the branch taken and
\* the requests sent; results and existing_blocks are the client's answers
PublishFile(file, results, existing_blocks) ==
    LET front_matter == file.front_matter
    IN IF ~HasTitle(front_matter) \/ ~HasParent(front_matter)
       THEN [branch |-> "skipped", sent |-> <<>>]
       ELSE LET title == front_matter.title
                parent_page_id == front_matter.parent_page_id
                search == <<[api |-> "search", query |-> title]>>
                existing_page == FindPageByTitleAndParent(results, title, parent_page_id)
                compiled == MarkdownToNotionBlocks(file.body)
                page_payload == PagePayload(front_matter, title)
            IN IF existing_page.raised \/ compiled.raised
               THEN [branch |-> "raised", sent |-> search]
               ELSE IF existing_page.page # <<>>
               THEN LET page_id == existing_page.page[1].id
                    IN [branch |-> "updated",
                        sent |-> search
                                 \o <<[api |-> "pages.update", page_id |-> page_id, payload |-> page_payload]>>
                                 \o UpdatePageBlocks(page_id, existing_blocks, compiled.blocks)]
               ELSE [branch |-> "created",
                     sent |-> search
                              \o <<[api |-> "pages.create", parent |-> parent_page_id,
                                    children |-> compiled.blocks, payload |-> page_payload]>>]

\* front matters: without title, without parent, complete, with another case of
\* the title, with icon and cover
FrontMatters ==
    { [parent_page_id |-> "P"],
      [title |-> <<"T">>],
      [title |-> <<"T">>, parent_page_id |-> "P"],
      [title |-> <<"t">>, parent_page_id |-> "P"],
      [title |-> <<"T">>, parent_page_id |-> "P", icon |-> "i", cover_url |-> "c"] }

\* bodies as md.parse returns them: empty, a paragraph, an empty blockquote
Bodies == { <<>>, Paragraph(InlA), Blockquote(<<>>) }

MarkdownFiles == { [front_matter |-> fm, body |-> b] : fm \in FrontMatters, b \in Bodies }

RemotePage(id, title, parent) == [id |-> id, title |-> title, parent |-> parent]

\* answers of the search: no page, a page under another parent, a page with the
\* title in lower case, a page without a title text before or after it
SearchResults ==
    { <<>>,
      <<RemotePage("p1", <<<<"T">>>>, "Q")>>,
      <<RemotePage("p2", <<<<"x">>>>, "P"), RemotePage("p3", <<<<"t">>>>, "P")>>,
      <<RemotePage("p3", <<<<"t">>>>, "P"), RemotePage("p4", <<>>, "P")>>,
      <<RemotePage("p4", <<>>, "P"), RemotePage("p3", <<<<"t">>>>, "P")>> }

BlockIds == <<"b1", "b2", "b3", "b4">>
ListedChildren == { SubSeq(BlockIds, 1, n) : n \in 0..MaxListed }

InitPublish ==
    /\ BlockIdle /\ InlineIdle /\ CallsIdle /\ SplitterIdle
    /\ calls = <<>>
    /\ job = [kind |-> "publish", n |-> 0, pc |-> "run"]

\* one file of the directory is processed along the given branch
ProcessFile(branch) ==
    /\ job.n < MaxFiles
    /\ \E file \in MarkdownFiles, results \in SearchResults, existing_blocks \in ListedChildren :
          LET done == PublishFile(file, results, existing_blocks)
          IN /\ done.branch = branch
             /\ calls' = calls \o done.sent
             /\ job' = [kind |-> "publish", n |-> job.n + 1,
                        pc |-> IF branch = "raised" THEN "raised" ELSE "run",
                        file |-> file, results |-> results, existing_blocks |-> existing_blocks]
    /\ UNCHANGED <<blockVars, inlineVars, compilations, splitterVars>>

Publishing == job.kind = "publish" /\ job.pc = "run"

FileSkipped == Publishing /\ ProcessFile("skipped")
PageCreated == Publishing /\ ProcessFile("created")
PageUpdated == Publishing /\ ProcessFile("updated")
PublishRaises == Publishing /\ ProcessFile("raised")

\* the directory has no further file
PublishReturn ==
    /\ Publishing
    /\ job' = [job EXCEPT !.pc = "done"]
    /\ UNCHANGED <<calls, blockVars, inlineVars, compilations, splitterVars>>

NextPublish ==
    \/ FileSkipped
    \/ PageCreated
    \/ PageUpdated
    \/ PublishRaises
    \/ PublishReturn

SpecPublish == InitPublish /\ [][NextPublish]_vars

\* the requests the last step sent, the searches left out
SentBy(step_calls, before) ==
    SelectSeq(SubSeq(step_calls, Len(before) + 1, Len(step_calls)), LAMBDA c : c.api # "search")

\* the pages of the answer that carry the title, whatever its case, under the parent
MatchingPages(results, title, parent_id) ==
    SelectSeq(results, LAMBDA page : /\ page.title # <<>>
                                     /\ Lower(page.title[1]) = Lower(title)
                                     /\ page.parent = parent_id)

\* C13: for each Markdown file that has a title and a parent_page_id, the
\* requests sent are exactly: when no remote page matches the title
\* (case-insensitively) under that parent, one pages.create carrying the parent,
\* the title and the compiled blocks as children, and no pages.update; when one
\* matches, one pages.update on the matched page id followed by one listing of
\* its children, one delete per listed block and one append of the new blocks,
\* and no pages.create.
C13_CreateOrReplace ==
    [][(job.kind = "publish" /\ job'.n = job.n + 1
        /\ HasTitle(job'.file.front_matter) /\ HasParent(job'.file.front_matter)) =>
          LET front_matter == job'.file.front_matter
              matching == MatchingPages(job'.results, front_matter.title, front_matter.parent_page_id)
              new_blocks == MarkdownToNotionBlocks(job'.file.body).blocks
              sent == SentBy(calls', calls)
          IN IF matching = <<>>
             THEN /\ Len(sent) = 1
                  /\ sent[1].api = "pages.create"
                  /\ sent[1].parent = front_matter.parent_page_id
                  /\ sent[1].payload.properties.title = front_matter.title
                  /\ sent[1].children = new_blocks
             ELSE LET page_id == matching[1].id
                      listed == job'.existing_blocks
                  IN /\ Len(sent) = Len(listed) + 3
                     /\ sent[1].api = "pages.update" /\ sent[1].page_id = page_id
                     /\ sent[2] = [api |-> "blocks.children.list", block_id |-> page_id]
                     /\ \A k \in 1..Len(listed) :
                           sent[2 + k] = [api |-> "blocks.delete", block_id |-> listed[k]]
                     /\ sent[Len(listed) + 3] =
                           [api |-> "blocks.children.append", block_id |-> page_id,
                            children |-> new_blocks]]_vars

(***************************************************************************)
(* apply_schema_to_notion (src/src/schema.py) with find_database_by_title  *)
(* (src/src/notion_utils.py): one action per outcome of the loop body for  *)
(* one database and for one relation.  A plan line is a record of what the *)
(* printed line says.                                                      *)
(***************************************************************************)
MaxDatabases == 2     \* databases of a schema
MaxRelations == 1     \* relations of a schema

\* the titles compared as they are, without lower()
RECURSIVE FindDatabaseExact(_, _)
FindDatabaseExact(results, title) ==
    IF results = <<>> THEN <<>>
    ELSE IF Head(results).title = title THEN <<Head(results)>>
    ELSE FindDatabaseExact(Tail(results), title)

\* the first database of the answer whose title is the searched one, whatever the case
RECURSIVE FindDatabaseByTitle(_, _)
FindDatabaseByTitle(results, title) ==
    IF results = <<>> THEN <<>>
    ELSE IF Lower(Head(results).title) = Lower(title) THEN <<Head(results)>>
    ELSE FindDatabaseByTitle(Tail(results), title)

ValidFormats ==
    {"number", "number_with_commas", "percent", "dollar", "australian_dollar",
     "canadian_dollar", "singapore_dollar", "euro", "pound", "yen", "ruble",
     "rupee", "won", "yuan", "real", "lira", "rupiah", "franc", "hong_kong_dollar",
     "new_zealand_dollar", "krona", "norwegian_krone", "mexican_peso", "rand",
     "new_taiwan_dollar", "danish_krone", "zloty", "baht", "forint", "koruna",
     "shekel", "chilean_peso", "philippine_peso", "dirham", "colombian_peso",
     "riyal", "ringgit", "leu", "argentine_peso", "uruguayan_peso", "peruvian_sol"}

\* _build_properties: {name: {type: {}}}, with the format of a number; ValueError
\* on a number format Notion does not know
BuildProperties(schema_properties) ==
    LET Format(prop) == IF "format" \in DOMAIN prop THEN prop.format ELSE "number"
        names == DOMAIN schema_properties
    IN IF \E name \in names : /\ schema_properties[name].type = "number"
                              /\ Format(schema_properties[name]) \notin ValidFormats
       THEN [raised |-> TRUE, properties |-> <<>>]
       ELSE [raised |-> FALSE,
             properties |->
                [name \in names |->
                    IF schema_properties[name].type = "number"
                    THEN [number |-> [format |-> Format(schema_properties[name])]]
                    ELSE [of_type |-> schema_properties[name].type]]]

\* dict.copy() followed by dict.update()
Merged(existing_properties, schema_properties) ==
    [name \in DOMAIN existing_properties \cup DOMAIN schema_properties |->
        IF name \in DOMAIN schema_properties THEN schema_properties[name]
        ELSE existing_properties[name]]

\* _update_database: the requests it sends; none for an unknown update mode
UpdateDatabase(existing_db, db_config, update_mode) ==
    LET built == BuildProperties(db_config.properties)
    IN IF built.raised THEN [raised |-> TRUE, sent |-> <<>>]
       ELSE IF update_mode = "replace"
       THEN [raised |-> FALSE,
             sent |-> <<[api |-> "databases.update", database_id |-> existing_db.id,
                         properties |-> built.properties]>>]
       ELSE IF update_mode = "merge"
       THEN [raised |-> FALSE,
             sent |-> <<[api |-> "databases.update", database_id |-> existing_db.id,
                         properties |-> Merged(existing_db.properties, built.properties)]>>]
       ELSE [raised |-> FALSE, sent |-> <<>>]

\* _create_database: the request it sends
CreateDatabase(parent_page_id, db_config) ==
    LET built == BuildProperties(db_config.properties)
    IN IF built.raised THEN [raised |-> TRUE, sent |-> <<>>]
       ELSE [raised |-> FALSE,
             sent |-> <<[api |-> "databases.create", parent |-> parent_page_id,
                         title |-> db_config.title, properties |-> built.properties]>>]

MatchRule(db_config) ==
    IF "match" \in DOMAIN db_config THEN db_config.match
    ELSE [by |-> "title", value |-> db_config.title]

\* the plan says UPDATE where the database is to be created
PlanToUpdate(db_config) == <<[line |-> "update", title |-> db_config.title]>>

\* plan.append("  - Plan to CREATE database: '{db_title}'")
PlanToCreate(db_config) == <<[line |-> "create", title |-> db_config.title]>>

WithId(map, db_key, id) == [k \in DOMAIN map \cup {db_key} |-> IF k = db_key THEN id ELSE map[k]]

\* the body of `for db_config in schema.get('databases', [])` for one database:
\* the branch taken, the requests sent, the plan lines added, the id map after it;
\* results is the answer of the search and new_id the id of the created database
ApplyDatabase(db_config, dry_run, parent_page_id, results, new_id, map) ==
    LET match_rule == MatchRule(db_config)
        by_title == match_rule.by = "title"
        search_line == IF by_title /\ dry_run
                       THEN <<[line |-> "search", title |-> match_rule.value]>> ELSE <<>>
        search == IF by_title /\ ~dry_run
                  THEN <<[api |-> "search", query |-> match_rule.value]>> ELSE <<>>
        existing_db == IF by_title /\ ~dry_run
                       THEN FindDatabaseByTitle(results, match_rule.value) ELSE <<>>
        update_mode == IF "update_mode" \in DOMAIN db_config THEN db_config.update_mode ELSE "merge"
    IN IF "db_key" \notin DOMAIN db_config
       THEN [branch |-> "raised", sent |-> search, plan |-> search_line, map |-> map]
       ELSE IF existing_db # <<>>
       THEN LET updated == UpdateDatabase(existing_db[1], db_config, update_mode)
            IN [branch |-> IF updated.raised THEN "raised" ELSE "updated",
                sent |-> search \o updated.sent,
                plan |-> <<>>,
                map |-> WithId(map, db_config.db_key, existing_db[1].id)]
       ELSE IF dry_run
       THEN [branch |-> "planned", sent |-> <<>>,
             plan |-> search_line \o PlanToCreate(db_config),
             map |-> WithId(map, db_config.db_key, "new_db_for_" \o db_config.db_key)]
       ELSE LET created == CreateDatabase(parent_page_id, db_config)
            IN [branch |-> IF created.raised THEN "raised" ELSE "created",
                sent |-> search \o created.sent,
                plan |-> <<>>,
                map |-> IF created.raised THEN map ELSE WithId(map, db_config.db_key, new_id)]

\* relation_property: single_property, or dual_property when a synced name is given
RelationProperty(to_db_id, relation_config) ==
    IF "synced_property_name" \in DOMAIN relation_config /\ relation_config.synced_property_name # ""
    THEN [type |-> "relation",
          relation |-> [database_id |-> to_db_id,
                        dual_property |-> [synced_property_name |-> relation_config.synced_property_name]]]
    ELSE [type |-> "relation",
          relation |-> [database_id |-> to_db_id, single_property |-> <<>>]]

\* the body of `for relation_config in schema.get('relations', [])` for one relation
ApplyRelation(relation_config, dry_run, map) ==
    LET from_db_key == relation_config.from_db
        to_db_key == relation_config.to_db
        property_name == relation_config.property_name
        on_missing == IF "on_missing" \in DOMAIN relation_config THEN relation_config.on_missing ELSE "skip"
    IN IF from_db_key \notin DOMAIN map \/ to_db_key \notin DOMAIN map
       THEN [branch |-> IF on_missing = "error" THEN "raised" ELSE "skipped", sent |-> <<>>, plan |-> <<>>]
       ELSE IF dry_run
       THEN [branch |-> "planned", sent |-> <<>>,
             plan |-> <<[line |-> "relation", property_name |-> property_name,
                         from_db |-> from_db_key, to_db |-> to_db_key]>>]
       ELSE [branch |-> "applied",
             sent |-> <<[api |-> "databases.update", database_id |-> map[from_db_key],
                         properties |-> [name \in {property_name} |->
                                            RelationProperty(map[to_db_key], relation_config)]]>>,
             plan |-> <<>>]

NameOnly == [Name |-> [type |-> "title"]]

\* database configurations: two plain ones, other update modes, a match rule that is
\* not by title, one by another title, no db_key, a number format Notion does not know
DbConfigs ==
    { [db_key |-> "customers", title |-> <<"T">>, properties |-> NameOnly],
      [db_key |-> "orders", title |-> <<"O">>, properties |-> NameOnly],
      [db_key |-> "orders", title |-> <<"O">>, properties |-> NameOnly, update_mode |-> "replace"],
      [db_key |-> "orders", title |-> <<"O">>, properties |-> NameOnly, update_mode |-> "append"],
      [db_key |-> "customers", title |-> <<"T">>, properties |-> NameOnly,
       match |-> [by |-> "id", value |-> <<"T">>]],
      [db_key |-> "customers", title |-> <<"T">>, properties |-> NameOnly,
       match |-> [by |-> "title", value |-> <<"O">>]],
      [title |-> <<"T">>, properties |-> NameOnly],
      [db_key |-> "orders", title |-> <<"O">>,
       properties |-> [Amount |-> [type |-> "number", format |-> "bitcoin"]]] }

RelationConfigs ==
    { [from_db |-> "orders", to_db |-> "customers", property_name |-> "Customer",
       synced_property_name |-> "Orders"],
      [from_db |-> "orders", to_db |-> "customers", property_name |-> "Customer"],
      [from_db |-> "orders", to_db |-> "products", property_name |-> "Product"],
      [from_db |-> "orders", to_db |-> "products", property_name |-> "Product", on_missing |-> "error"] }

RemoteDb(id, title) == [id |-> id, title |-> title, properties |-> [Old |-> [of_type |-> "url"]]]

\* answers of the search: no database, one with the title T in lower case, one titled O
\* after one with another title
DbSearchResults ==
    { <<>>,
      <<RemoteDb("e1", <<"t">>)>>,
      <<RemoteDb("e2", <<"x">>), RemoteDb("e3", <<"O">>)>> }

InitSchema ==
    /\ BlockIdle /\ InlineIdle /\ CallsIdle /\ SplitterIdle
    /\ calls = <<>>
    /\ \E dry_run \in BOOLEAN, parent_page_id \in {"", "W"} :
          job = [kind |-> "schema", dry_run |-> dry_run, parent_page_id |-> parent_page_id,
                 databases |-> <<>>, relations |-> <<>>, db_key_to_id_map |-> <<>>,
                 plan |-> <<>>, pc |-> "run", step |-> [branch |-> "none"]]

Applying == job.kind = "schema" /\ job.pc = "run"

\* `if not parent_page_id: raise ValueError`
SchemaRejected ==
    /\ Applying
    /\ job.parent_page_id = "" /\ job.step.branch = "none"
    /\ job' = [job EXCEPT !.pc = "raised", !.step = [branch |-> "rejected"]]
    /\ UNCHANGED <<calls, blockVars, inlineVars, compilations, splitterVars>>

\* the next database of the schema is processed along the given branch
ProcessDatabase(branch) ==
    /\ job.parent_page_id # ""
    /\ job.relations = <<>>
    /\ Len(job.databases) < MaxDatabases
    /\ \E db_config \in DbConfigs, results \in DbSearchResults :
          LET new_id == IF "db_key" \in DOMAIN db_config THEN "id_" \o db_config.db_key ELSE ""
              done == ApplyDatabase(db_config, job.dry_run, job.parent_page_id, results,
                                    new_id, job.db_key_to_id_map)
          IN /\ done.branch = branch
             /\ calls' = calls \o done.sent
             /\ job' = [job EXCEPT !.databases = Append(@, db_config),
                                   !.db_key_to_id_map = done.map,
                                   !.plan = @ \o done.plan,
                                   !.pc = IF branch = "raised" THEN "raised" ELSE "run",
                                   !.step = [branch |-> branch, db_config |-> db_config,
                                             results |-> results, new_id |-> new_id]]
    /\ UNCHANGED <<blockVars, inlineVars, compilations, splitterVars>>

DatabasePlanned == Applying /\ ProcessDatabase("planned")
DatabaseCreated == Applying /\ ProcessDatabase("created")
DatabaseUpdated == Applying /\ ProcessDatabase("updated")
DatabaseRaises == Applying /\ ProcessDatabase("raised")

\* the next relation of the schema is processed along the given branch
ProcessRelation(branch) ==
    /\ job.parent_page_id # ""
    /\ Len(job.relations) < MaxRelations
    /\ \E relation_config \in RelationConfigs :
          LET done == ApplyRelation(relation_config, job.dry_run, job.db_key_to_id_map)
          IN /\ done.branch = branch
             /\ calls' = calls \o done.sent
             /\ job' = [job EXCEPT !.relations = Append(@, relation_config),
                                   !.plan = @ \o done.plan,
                                   !.pc = IF branch = "raised" THEN "raised" ELSE "run",
                                   !.step = [branch |-> branch, relation_config |-> relation_config]]
    /\ UNCHANGED <<blockVars, inlineVars, compilations, splitterVars>>

RelationPlanned == Applying /\ ProcessRelation("planned")
RelationApplied == Applying /\ ProcessRelation("applied")
RelationSkipped == Applying /\ ProcessRelation("skipped")
RelationRaises == Applying /\ ProcessRelation("raised")

\* `if dry_run: return plan` after the last relation
SchemaReturn ==
    /\ Applying
    /\ job.parent_page_id # ""
    /\ job' = [job EXCEPT !.pc = "done", !.step = [branch |-> "returned"]]
    /\ UNCHANGED <<calls, blockVars, inlineVars, compilations, splitterVars>>

NextSchema ==
    \/ SchemaRejected
    \/ DatabasePlanned
    \/ DatabaseCreated
    \/ DatabaseUpdated
    \/ DatabaseRaises
    \/ RelationPlanned
    \/ RelationApplied
    \/ RelationSkipped
    \/ RelationRaises
    \/ SchemaReturn

SpecSchema == InitSchema /\ [][NextSchema]_vars

NoDatabaseWrite ==
    \A k \in 1..Len(calls) : calls[k].api \notin {"databases.create", "databases.update"}

IsByTitle(db_config) == "match" \notin DOMAIN db_config \/ db_config.match.by = "title"
MatchValue(db_config) == IF "match" \in DOMAIN db_config THEN db_config.match.value ELSE db_config.title

\* C14 as stated: with dry_run true no databases.create and no databases.update
\* is sent for any schema, and the plan returned is non-empty and holds, for
\* each database, a search line followed by a 'Plan to CREATE database' line.
C14_AsStated ==
    (job.kind = "schema" /\ job.dry_run) =>
        /\ NoDatabaseWrite
        /\ job.pc = "done" =>
              /\ job.plan # <<>>
              /\ Len(job.plan) >= 2 * Len(job.databases)
              /\ \A k \in 1..Len(job.databases) :
                    /\ job.plan[2 * k - 1].line = "search"
                    /\ job.plan[2 * k] = [line |-> "create", title |-> job.databases[k].title]

\* the lines the databases and the relations of a schema give rise to in a dry run
DatabaseLines(databases) ==
    Flatten([k \in 1..Len(databases) |->
                (IF IsByTitle(databases[k])
                 THEN <<[line |-> "search", title |-> MatchValue(databases[k])]>> ELSE <<>>)
                \o <<[line |-> "create", title |-> databases[k].title]>>])

RelationLines(databases, relations) ==
    LET keys == {databases[k].db_key : k \in 1..Len(databases)}
        known == SelectSeq(relations, LAMBDA r : r.from_db \in keys /\ r.to_db \in keys)
    IN [k \in 1..Len(known) |->
           [line |-> "relation", property_name |-> known[k].property_name,
            from_db |-> known[k].from_db, to_db |-> known[k].to_db]]

\* C14: with dry_run true no databases.create and no databases.update is sent
\* for any schema, with or without relations; when the function returns, the
\* plan holds for each database, in schema order, a 'Plan to CREATE database'
\* line, preceded by a search line when the database is matched by title (the
\* default), then one line per relation between databases of the schema; the
\* plan is empty exactly when the schema has no database.
C14_DryRunPlansOnly ==
    (job.kind = "schema" /\ job.dry_run) =>
        /\ NoDatabaseWrite
        /\ job.pc = "done" =>
              /\ job.plan = DatabaseLines(job.databases) \o RelationLines(job.databases, job.relations)
              /\ (job.plan = <<>>) <=> (job.databases = <<>>)

\* a dry run over a database matched by title, one matched by id and a relation
C14_Witness ==
    /\ job.kind = "schema" /\ job.dry_run /\ job.pc = "done"
    /\ Len(job.databases) = 2
    /\ IsByTitle(job.databases[1]) /\ ~IsByTitle(job.databases[2])
    /\ Len(job.relations) = 1
    /\ Len(job.plan) = 4
    /\ job.plan[4].line = "relation"
    /\ calls = <<>>

\* the requests the step from `before` to `after` added to the record
NewCalls(after, before) == SubSeq(after, Len(before) + 1, Len(after))

\* the databases of the answer that carry the title, whatever its case
MatchingDatabases(results, title) ==
    SelectSeq(results, LAMBDA db : Lower(db.title) = Lower(title))

DatabaseStep ==
    /\ job.kind = "schema" /\ ~job.dry_run
    /\ Len(job'.databases) = Len(job.databases) + 1

IsRelationUpdate(call) ==
    /\ call.api = "databases.update"
    /\ \E name \in DOMAIN call.properties :
          "type" \in DOMAIN call.properties[name] /\ call.properties[name].type = "relation"

CreatedInRun(map, db_key) == db_key \in DOMAIN map /\ map[db_key] = "id_" \o db_key

\* C16: a relation between two databases both created in the same run gives
\* exactly one databases.update, sent after every database creation, on the id
\* of from_db; its properties hold property_name, whose relation.database_id is
\* the id of to_db and whose relation.synced_property_name, when a synced
\* property name is configured, is that name.
C16_RelationAfterCreations ==
    [][(job.kind = "schema" /\ ~job.dry_run) =>
          /\ (\E k \in Len(calls) + 1..Len(calls') : calls'[k].api = "databases.create")
                => \A k \in 1..Len(calls) : ~IsRelationUpdate(calls[k])
          /\ (/\ Len(job'.relations) = Len(job.relations) + 1
              /\ CreatedInRun(job.db_key_to_id_map, job'.step.relation_config.from_db)
              /\ CreatedInRun(job.db_key_to_id_map, job'.step.relation_config.to_db)) =>
                LET relation_config == job'.step.relation_config
                    sent == NewCalls(calls', calls)
                IN /\ Len(sent) = 1
                   /\ sent[1].api = "databases.update"
                   /\ sent[1].database_id = job.db_key_to_id_map[relation_config.from_db]
                   /\ relation_config.property_name \in DOMAIN sent[1].properties
                   /\ LET relation == sent[1].properties[relation_config.property_name].relation
                      IN /\ relation.database_id = job.db_key_to_id_map[relation_config.to_db]
                         /\ "synced_property_name" \in DOMAIN relation_config =>
                               /\ "synced_property_name" \in DOMAIN relation
                               /\ relation.synced_property_name = relation_config.synced_property_name]_vars

(***************************************************************************)
(* ingest_data_to_notion (src/src/ingestion.py): one action per outcome of *)
(* the search for a database and of the loop body for one record.  A       *)
(* record is the sequence of its (key, value) pairs in dict order; a value *)
(* is the sequence of its strings, a scalar being a sequence of one.       *)
(***************************************************************************)
MaxKeys == 2        \* database keys of the data
MaxRecords == 2     \* records of the data, all keys together

Pair(key, value) == [key |-> key, value |-> value]

Keys(record) == {record[k].key : k \in 1..Len(record)}
ValueOf(record, key) == record[CHOOSE k \in 1..Len(record) : record[k].key = key].value

\* record[target_key] = value: a key keeps the place it was first given
Put(record, key, value) ==
    IF key \in Keys(record)
    THEN [k \in 1..Len(record) |-> IF record[k].key = key THEN Pair(key, value) ELSE record[k]]
    ELSE Append(record, Pair(key, value))

\* every mapped column keeps its header
RECURSIVE TransformCsvRowUnmapped(_, _)
TransformCsvRowUnmapped(row, columns) ==
    IF columns = <<>> THEN <<>>
    ELSE LET csv_header == Last(columns).header
             rest == TransformCsvRowUnmapped(row, SubSeq(columns, 1, Len(columns) - 1))
         IN IF csv_header \in Keys(row) THEN Put(rest, csv_header, ValueOf(row, csv_header)) ELSE rest

\* _transform_csv_row: the mapped columns the row has, under their `as` key
RECURSIVE TransformCsvRow(_, _)
TransformCsvRow(row, columns) ==
    IF columns = <<>> THEN <<>>
    ELSE LET mapping == Last(columns)
             csv_header == mapping.header
             target_key == IF "as" \in DOMAIN mapping THEN mapping.as ELSE csv_header
             rest == TransformCsvRow(row, SubSeq(columns, 1, Len(columns) - 1))
         IN IF csv_header \in Keys(row) THEN Put(rest, target_key, ValueOf(row, csv_header)) ELSE rest

Names(options) == {options[k] : k \in 1..Len(options)}

\* the local definition is left as it was
EnsureSelectOptionsForgetful(db_id, prop_name, known, options_to_ensure, prop_type) ==
    LET new_options == SelectSeq(options_to_ensure, LAMBDA opt : opt \notin Names(known))
    IN IF new_options # <<>>
       THEN [sent |-> <<[api |-> "databases.update", database_id |-> db_id, prop_name |-> prop_name,
                         prop_type |-> prop_type, options |-> known \o new_options]>>,
             options |-> known]
       ELSE [sent |-> <<>>, options |-> known]

\* _ensure_select_options: the request it sends and prop_definition['options'] after it
EnsureSelectOptions(db_id, prop_name, known, options_to_ensure, prop_type) ==
    LET new_options == SelectSeq(options_to_ensure, LAMBDA opt : opt \notin Names(known))
    IN IF new_options # <<>>
       THEN [sent |-> <<[api |-> "databases.update", database_id |-> db_id, prop_name |-> prop_name,
                         prop_type |-> prop_type, options |-> known \o new_options]>>,
             options |-> known \o new_options]
       ELSE [sent |-> <<>>, options |-> known]

\* _build_page_properties, one record key after the other: the requests sent, the
\* options known after it, the page properties; db.types is the type of each property
RECURSIVE BuildPageProperties(_, _, _, _)
BuildPageProperties(record, db, create_missing_select_options, acc) ==
    IF record = <<>> THEN acc
    ELSE LET key == Head(record).key
             value == Head(record).value
             prop_type == db.types[key]
             ensured == IF create_missing_select_options
                        THEN EnsureSelectOptions(db.id, key, acc.options[key], value, prop_type)
                        ELSE [sent |-> <<>>, options |-> acc.options[key]]
             next ==
                IF key \notin DOMAIN db.types THEN acc
                ELSE IF key = "external_id" \/ prop_type \in {"title", "rich_text"}
                THEN [acc EXCEPT !.properties =
                         WithId(@, key, [of_type |-> IF key = "external_id" THEN "rich_text" ELSE prop_type,
                                         content |-> value[1]])]
                ELSE IF prop_type \in {"select", "multi_select"}
                THEN [sent |-> acc.sent \o ensured.sent,
                      options |-> [acc.options EXCEPT ![key] = ensured.options],
                      properties |-> WithId(acc.properties, key, [of_type |-> prop_type, names |-> value])]
                ELSE acc
         IN BuildPageProperties(Tail(record), db, create_missing_select_options, next)

\* the body of `for record in records` for one record: the branch taken, the
\* requests sent, the options known after it; results is the answer of the query
IngestRecord(record, db, options, create_missing_select_options, dry_run, results) ==
    LET match_on == "external_id"
        has_match == match_on \in Keys(record) /\ ValueOf(record, match_on) # <<"">>
    IN IF ~has_match THEN [branch |-> "skipped", sent |-> <<>>, options |-> options]
       ELSE IF dry_run THEN [branch |-> "planned", sent |-> <<>>, options |-> options]
       ELSE LET query == <<[api |-> "databases.query", database_id |-> db.id,
                            property |-> match_on, equals |-> ValueOf(record, match_on)]>>
                built == BuildPageProperties(record, db, create_missing_select_options,
                                             [sent |-> <<>>, options |-> options, properties |-> <<>>])
            IN IF results # <<>>
               THEN [branch |-> "updated",
                     sent |-> query \o built.sent
                              \o <<[api |-> "pages.update", page_id |-> results[1].id,
                                    properties |-> built.properties]>>,
                     options |-> built.options]
               ELSE [branch |-> "created",
                     sent |-> query \o built.sent
                              \o <<[api |-> "pages.create", parent |-> db.id,
                                    properties |-> built.properties]>>,
                     options |-> built.options]

\* the target database as the search returns it: the type of each property; the
\* options of the select properties are kept in job.options while the run changes them
TargetDb == [id |-> "db1", title |-> <<"t">>,
             types |-> [external_id |-> "rich_text", Name |-> "title",
                        Status |-> "select", Tags |-> "multi_select"]]
KnownOptions == [Status |-> <<"Active">>, Tags |-> <<"A">>]

\* records of a YAML file: with known and unknown options, without match key, with
\* an empty match value, with a key the database does not have
YamlRecords ==
    { <<Pair("external_id", <<"c1">>), Pair("Name", <<"N">>), Pair("Status", <<"Prospect">>)>>,
      <<Pair("external_id", <<"c2">>), Pair("Status", <<"Active">>), Pair("Tags", <<"A">>)>>,
      <<Pair("external_id", <<"c3">>), Pair("Tags", <<"A", "B">>), Pair("Status", <<"Prospect">>)>>,
      <<Pair("external_id", <<"c4">>), Pair("Tags", <<"B">>), Pair("Other", <<"o">>)>>,
      <<Pair("Name", <<"N">>), Pair("Status", <<"Lead">>)>>,
      <<Pair("external_id", <<"">>), Pair("Name", <<"N">>)>> }

\* rows of a CSV file and the column map of the map file
CsvRows ==
    { <<Pair("ID", <<"c5">>), Pair("Company Name", <<"N">>)>>,
      <<Pair("Company Name", <<"N">>), Pair("State", <<"Prospect">>)>>,
      <<Pair("ID", <<"c6">>), Pair("State", <<"Prospect">>), Pair("Notes", <<"n">>)>> }
ColumnMap ==
    << [header |-> "ID", as |-> "external_id"],
       [header |-> "Company Name", as |-> "Name"],
       [header |-> "State", as |-> "Status"],
       [header |-> "Tags"] >>

QueryResults == { <<>>, <<[id |-> "pg2"], [id |-> "pg1"]>> }

\* data is a dict (YAML) or a list of rows (CSV) with or without a usable map file
InitIngest ==
    /\ BlockIdle /\ InlineIdle /\ CallsIdle /\ SplitterIdle
    /\ calls = <<>>
    /\ \E format \in {"yaml", "csv", "csv without map", "csv without target_db"},
          dry_run \in BOOLEAN, create_missing_select_options \in BOOLEAN :
          job = [kind |-> "ingest", format |-> format, dry_run |-> dry_run,
                 create_missing_select_options |-> create_missing_select_options,
                 keys |-> 0, records |-> 0, db |-> <<>>, options |-> <<>>, pc |-> "run",
                 step |-> [branch |-> "none"]]

Ingesting == job.kind = "ingest" /\ job.pc = "run"
Accepted == job.format \in {"yaml", "csv"}

\* `raise ValueError` for a CSV without map file or without target_db
IngestRejected ==
    /\ Ingesting
    /\ ~Accepted /\ job.step.branch = "none"
    /\ job' = [job EXCEPT !.pc = "raised", !.step = [branch |-> "rejected"]]
    /\ UNCHANGED <<calls, blockVars, inlineVars, compilations, splitterVars>>

\* the next key of data_items: the database is searched for (or faked in a dry run)
SeekDatabase(found) ==
    /\ Accepted
    /\ job.keys < (IF job.format = "csv" THEN 1 ELSE MaxKeys)
    /\ \E results \in {<<>>, <<TargetDb>>, <<RemoteDb("e2", <<"x">>)>>} :
          LET db_key == <<"T">>
              db == IF job.dry_run THEN <<[id |-> "fake_id_for_T", types |-> <<>>]>>
                    ELSE FindDatabaseByTitle(results, db_key)
          IN /\ found = (db # <<>>)
             /\ calls' = calls \o (IF job.dry_run THEN <<>>
                                   ELSE <<[api |-> "search", query |-> db_key]>>)
             /\ job' = [job EXCEPT !.keys = @ + 1, !.db = db,
                                   !.options = IF db # <<>> /\ ~job.dry_run THEN KnownOptions ELSE <<>>,
                                   !.step = [branch |-> IF found THEN "found" ELSE "not found"]]
    /\ UNCHANGED <<blockVars, inlineVars, compilations, splitterVars>>

DatabaseFound == Ingesting /\ SeekDatabase(TRUE)
DatabaseNotFound == Ingesting /\ SeekDatabase(FALSE)

\* the next record under the current key is processed along the given branch
ProcessRecord(branch) ==
    /\ Accepted
    /\ job.db # <<>>
    /\ job.records < MaxRecords
    /\ \E item \in (IF job.format = "csv" THEN CsvRows ELSE YamlRecords), results \in QueryResults :
          LET record == IF job.format = "csv" THEN TransformCsvRow(item, ColumnMap) ELSE item
              done == IngestRecord(record, job.db[1], job.options,
                                   job.create_missing_select_options, job.dry_run, results)
          IN /\ done.branch = branch
             /\ calls' = calls \o done.sent
             /\ job' = [job EXCEPT !.records = @ + 1, !.options = done.options,
                                   !.step = [branch |-> branch, item |-> item,
                                             record |-> record, results |-> results]]
    /\ UNCHANGED <<blockVars, inlineVars, compilations, splitterVars>>

RecordSkipped == Ingesting /\ ProcessRecord("skipped")
RecordPlanned == Ingesting /\ ProcessRecord("planned")
RecordCreated == Ingesting /\ ProcessRecord("created")
RecordUpdated == Ingesting /\ ProcessRecord("updated")

IngestReturn ==
    /\ Ingesting
    /\ Accepted
    /\ job' = [job EXCEPT !.pc = "done", !.step = [branch |-> "returned"]]
    /\ UNCHANGED <<calls, blockVars, inlineVars, compilations, splitterVars>>

NextIngest ==
    \/ IngestRejected
    \/ DatabaseFound
    \/ DatabaseNotFound
    \/ RecordSkipped
    \/ RecordPlanned
    \/ RecordCreated
    \/ RecordUpdated
    \/ IngestReturn

SpecIngest == InitIngest /\ [][NextIngest]_vars

RecordStep ==
    /\ job.kind = "ingest" /\ ~job.dry_run
    /\ job'.records = job.records + 1

HasMatchValue(record) ==
    "external_id" \in Keys(record) /\ ValueOf(record, "external_id") # <<"">>

TargetKey(mapping) == IF "as" \in DOMAIN mapping THEN mapping.as ELSE mapping.header

\* C17: for every record that has a value for the match key, in a database
\* that was found (not a dry run), the page is looked up by the match property
\* and exactly one of the two happens: one pages.update with the id of the page
\* found and no pages.create, or, when none was found, one pages.create with
\* that database as parent and no pages.update.  For CSV data the record is the
\* row with each mapped column it has renamed to its `as` key.
C17_UpdateOrCreatePerRecord ==
    [][RecordStep =>
          LET record == job'.step.record
              item == job'.step.item
              results == job'.step.results
              sent == NewCalls(calls', calls)
              pages == SelectSeq(sent, LAMBDA c : c.api \in {"pages.update", "pages.create"})
              mapped == {m \in 1..Len(ColumnMap) : ColumnMap[m].header \in Keys(item)}
          IN /\ job.format = "csv" =>
                   /\ Keys(record) = {TargetKey(ColumnMap[m]) : m \in mapped}
                   /\ \A m \in mapped :
                         ValueOf(record, TargetKey(ColumnMap[m])) = ValueOf(item, ColumnMap[m].header)
             /\ job.format = "yaml" => record = item
             /\ HasMatchValue(record) =>
                   /\ sent[1] = [api |-> "databases.query", database_id |-> job.db[1].id,
                                 property |-> "external_id",
                                 equals |-> ValueOf(record, "external_id")]
                   /\ Len(pages) = 1
                   /\ Last(sent) = pages[1]
                   /\ IF results # <<>>
                      THEN pages[1].api = "pages.update" /\ pages[1].page_id = results[1].id
                      ELSE pages[1].api = "pages.create" /\ pages[1].parent = job.db[1].id]_vars

\* a CSV row with the columns ID and Company Name has become a new page
C17_Witness ==
    /\ job.kind = "ingest" /\ job.format = "csv" /\ ~job.dry_run
    /\ job.step.branch = "created"
    /\ job.step.item = <<Pair("ID", <<"c5">>), Pair("Company Name", <<"N">>)>>
    /\ Last(calls).api = "pages.create"
    /\ Last(calls).parent = "db1"
    /\ Last(calls).properties["Name"].content = "N"
    /\ Last(calls).properties["external_id"].content = "c5"

SelectKeys == {"Status", "Tags"}

\* C18: with create_missing_select_options enabled, a record that gives a
\* select or multi_select property a value not among its known options causes
\* one databases.update for that property, sent before the record's page is
\* created or updated, whose options are the known options followed by the
\* missing ones; the options are known from then on, so that a later record
\* with the same value causes no update, like any value that is known already.
C18_MissingOptionsAddedOnce ==
    [][(RecordStep /\ job.create_missing_select_options /\ HasMatchValue(job'.step.record)) =>
          LET record == job'.step.record
              sent == NewCalls(calls', calls)
          IN \A key \in SelectKeys :
                LET values == IF key \in Keys(record) THEN ValueOf(record, key) ELSE <<>>
                    known == job.options[key]
                    missing == SelectSeq(values, LAMBDA v : v \notin Names(known))
                    updates == {k \in 1..Len(sent) : /\ sent[k].api = "databases.update"
                                                     /\ sent[k].prop_name = key}
                IN IF missing = <<>>
                   THEN updates = {} /\ job'.options[key] = known
                   ELSE /\ Cardinality(updates) = 1
                        /\ \A k \in updates :
                              /\ k < Len(sent)
                              /\ sent[k].database_id = job.db[1].id
                              /\ sent[k].options = known \o missing
                        /\ job'.options[key] = known \o missing]_vars

\* two records gave Status the unknown value Prospect: one update, by the first
C18_Witness ==
    /\ job.kind = "ingest" /\ job.format = "yaml" /\ job.create_missing_select_options
    /\ job.records = 2 /\ job.keys = 1
    /\ job.step.branch = "created"
    /\ "Status" \in Keys(job.step.record)
    /\ ValueOf(job.step.record, "Status") = <<"Prospect">>
    /\ job.options["Status"] = <<"Active", "Prospect">>
    /\ Cardinality({k \in 1..Len(calls) : calls[k].api = "databases.update"}) = 1
    /\ Cardinality({k \in 1..Len(calls) : calls[k].api = "pages.create"}) = 2
    /\ calls[3].api = "databases.update"

(***************************************************************************)
(* _parse_markdown_file (src/src/pages.py), the Front-Matter Splitter, on  *)
(* the text of the file as a sequence of characters                        *)
(***************************************************************************)
MaxText == 7    \* characters of a file

MarkerAt(text, k) ==
    k + 2 <= Len(text) /\ text[k] = "-" /\ text[k + 1] = "-" /\ text[k + 2] = "-"

\* str.split('---', 2): the text cut at the first two markers, from the left
SplitAtMarkers(text) ==
    LET First(from) ==
            LET found == {k \in from..Len(text) : MarkerAt(text, k)}
            IN IF found = {} THEN 0 ELSE CHOOSE k \in found : \A other \in found : k <= other
        first == First(1)
        second == First(first + 3)
    IN IF first = 0 THEN <<text>>
       ELSE IF second = 0 THEN <<SubSeq(text, 1, first - 1), SubSeq(text, first + 3, Len(text))>>
       ELSE <<SubSeq(text, 1, first - 1), SubSeq(text, first + 3, second - 1),
              SubSeq(text, second + 3, Len(text))>>

\* yaml.safe_load: None for a text without content, else what the text parses to
SafeLoad(text) ==
    IF Strip(text) = <<>> THEN [value |-> "None"] ELSE [value |-> "parsed", yaml |-> Strip(text)]

EmptyDict == [value |-> "{}"]

\* _parse_markdown_file: (front_matter, body)
ParseMarkdownFile(text) ==
    LET parts == SplitAtMarkers(text)
    IN IF Len(parts) < 3 THEN [front_matter |-> EmptyDict, body |-> text]
       ELSE [front_matter |-> SafeLoad(parts[2]), body |-> LStrip(parts[3])]

Texts == SeqsUpTo({"-", "a", " "}, MaxText)

InitSplitter ==
    /\ BlockIdle /\ InlineIdle /\ CallsIdle /\ ClientIdle
    /\ file_content \in Texts
    /\ parsed = <<>>

\* `return {}, content`
ReturnsWithoutFrontMatter ==
    /\ parsed = <<>>
    /\ Len(SplitAtMarkers(file_content)) < 3
    /\ parsed' = <<ParseMarkdownFile(file_content)>>
    /\ UNCHANGED <<file_content, blockVars, inlineVars, compilations, clientVars>>

\* `return front_matter, body`
ReturnsFrontMatter ==
    /\ parsed = <<>>
    /\ Len(SplitAtMarkers(file_content)) >= 3
    /\ parsed' = <<ParseMarkdownFile(file_content)>>
    /\ UNCHANGED <<file_content, blockVars, inlineVars, compilations, clientVars>>

NextSplitter == ReturnsWithoutFrontMatter \/ ReturnsFrontMatter

SpecSplitter == InitSplitter /\ [][NextSplitter]_vars

\* the document begins with the marker and a later marker closes the section
ClosingMarkers(text) == {k \in 4..Len(text) : MarkerAt(text, k)}
HasLeadingMetadata(text) == MarkerAt(text, 1) /\ ClosingMarkers(text) # {}

\* C19: for a document that begins with a metadata section closed by the
\* `---` marker the splitter returns the parsed metadata and the text after
\* the closing marker without its leading whitespace; for every document
\* without a leading metadata section it returns empty metadata and the whole
\* text unchanged as the body.
C19_SplitsLeadingMetadata ==
    parsed # <<>> =>
        IF HasLeadingMetadata(file_content)
        THEN LET closing == CHOOSE k \in ClosingMarkers(file_content) :
                               \A other \in ClosingMarkers(file_content) : k <= other
             IN /\ parsed[1].front_matter = SafeLoad(SubSeq(file_content, 4, closing - 1))
                /\ parsed[1].body = LStrip(SubSeq(file_content, closing + 3, Len(file_content)))
        ELSE parsed[1] = [front_matter |-> EmptyDict, body |-> file_content]
====
